---- MODULE Spec2Model ----
(***************************************************************************)
(* logmonster: the growth analyzer (snapshot diff).                        *)
(*                                                                         *)
(* Two entry points diff an earlier and a later Snapshot against a byte    *)
(* threshold: Scanner.CalculateGrowth (internal/scanner/walker.go) and     *)
(* CompareSnapshots (the snapshot store file).  Both range over the Go map *)
(* snap2.Files, whose iteration order is unspecified, so each call is      *)
(* modelled as one action that picks an arbitrary iteration order and then *)
(* runs the whole function body, the trailing sort.Slice included.         *)
(*                                                                         *)
(* Abstractions:                                                           *)
(*  - time.Time / time.Duration are counted in ticks, TicksPerSecond ticks *)
(*    to the second;                                                       *)
(*  - a float64 is the exact rational <<numerator, denominator>> (float    *)
(*    rounding is monotone, so the order of two rates is never inverted);  *)
(*  - FileInfo.ModTime and FileInfo.Permission are not read by the diff    *)
(*    and are left out; file sizes are non-negative, as os.Stat reports.   *)
(***************************************************************************)
EXTENDS Integers, Sequences, FiniteSets

\* ---------------------------------------------------------------- bounds
NumPaths == 2          \* distinct paths that may occur in a snapshot
MaxSize == 1           \* file sizes range over 0..MaxSize bytes
MaxThreshold == 1      \* thresholds range over -1..MaxThreshold bytes
MaxTime == 2           \* the later snapshot is stamped 0..MaxTime ticks
TicksPerSecond == 2    \* resolution of the modelled clock
MaxPid == 3            \* process IDs range over 1..MaxPid
MaxTimeout == 1        \* Killer.Timeout ranges over 0..MaxTimeout clock ticks
MaxClock == 6          \* the killer's clock runs from 0 to MaxClock ticks
MaxWorkers == 2        \* Config.WorkerCount ranges over 1..MaxWorkers
ChanCap == 1           \* capacity given to the path queue and the result queue
MaxSends == 3          \* number of SendSignal calls in a behaviour
RateWindow == 4        \* rates lie within RateWindow bytes/s of a class border

Paths == 1..NumPaths
\* the path "/var/log/app.log" of the end-to-end case
AppLog == CHOOSE p \in Paths : \A q \in Paths : p <= q

\* snap1, snap2: the earlier and the later Snapshot handed to the diff
\* thresholdBytes: Config.ThresholdBytes / the thresholdBytes argument
\* returned: what the most recent diff call returned, and which entry point
VARIABLES snap1, snap2, thresholdBytes, returned

diffVars == <<snap1, snap2, thresholdBytes, returned>>

\* conn: whether Resolver.conn is non-nil (the system bus was reachable)
\* manager: what the service manager answers about the PID being resolved
\* proc: the process table as /proc shows it: comm and stat of every PID
\* resolved: the most recent ResolveService call, its tiers and its result
VARIABLES conn, manager, proc, resolved

resolverVars == <<conn, manager, proc, resolved>>

\* action.Killer: the target process, Kill's own goroutine, its liveness-poll
\* goroutine, the done channel, the time.After channel, the clock, the signals
\* sent so far, the last SendSignal call
VARIABLES target, killer, poller, done, timerC, now, sigLog, sendCall

killerVars == <<target, killer, poller, done, timerC, now, sigLog, sendCall>>

\* scanner.Scanner: its Config, the context's cancellation, the producer
\* goroutine, the path queue, the worker goroutines, the result queue, the
\* goroutine closing it, the snapshot being built, TakeSnapshot's own
\* position, what has happened so far, and the Scan call around it
VARIABLES config, cancelled, producer, fileChan, workers, resultChan, closer,
          snapshot, take, hist, scan

scannerVars == <<config, cancelled, producer, fileChan, workers, resultChan,
                 closer, snapshot, take, hist, scan>>

\* mapper.Mapper: what every process does with the file (the /proc view),
\* whether the handle enumeration tool and /proc can be used, and the
\* FindProcessForFile call
VARIABLES fdHolders, tools, find

mapperVars == <<fdHolders, tools, find>>

\* the growth rate handed to the severity functions, and what each returned
VARIABLES bytesPerSec, classified

severityVars == <<bytesPerSec, classified>>

\* scanner.Walker: the Walk call
VARIABLES walker

walkerVars == <<walker>>

restVars == <<mapperVars, severityVars, walkerVars>>

vars == <<diffVars, resolverVars, killerVars, scannerVars, restVars>>

\* no diff call has returned yet
NoCall == [fn |-> "none", growing |-> <<>>]

\* ------------------------------------------------------------ data model
\* types.FileInfo as stored under the key path
FileInfo(path, size, isDir) == [Path |-> path, Size |-> size, IsDir |-> isDir]

\* the zero value FileInfo{} a Go map lookup yields for a missing key
ZeroFileInfo == [Path |-> 0, Size |-> 0, IsDir |-> FALSE]

\* v, ok := m[key]
MapIndex(files, path) ==
    IF path \in DOMAIN files
    THEN [info |-> files[path], exists |-> TRUE]
    ELSE [info |-> ZeroFileInfo, exists |-> FALSE]

\* all Files maps over Paths whose sizes are drawn from sizes and whose
\* IsDir flags are drawn from dirFlags; the key of an entry is its Path
FileMaps(sizes, dirFlags) ==
    UNION { { [p \in ks |-> FileInfo(p, g[p].Size, g[p].IsDir)] :
                g \in [ks -> [Size : sizes, IsDir : dirFlags]] } : ks \in SUBSET Paths }

\* ---------------------------------------------------------------- floats
\* float64(n) / d.Seconds(), d.Seconds() being d ticks / TicksPerSecond
RatePerSecond(n, d) == <<n * TicksPerSecond, d>>

\* a > b on float64 (denominators of the same sign)
FloatGT(a, b) == a[1] * b[2] > b[1] * a[2]

\* int64(x): conversion of a float64 to an integer truncates toward zero
TruncToInt64(num, den) ==
    IF num >= 0 THEN num \div den ELSE -((-num) \div den)

\* Config.GetThresholdBytes: int64(GrowthMB * 1024 * 1024), GrowthMB = mb[1]/mb[2]
GetThresholdBytes(mb) == TruncToInt64(mb[1] * 1024 * 1024, mb[2])

\* configured thresholds.growth_mb values: k bytes expressed in MB
GrowthMBs == { <<k, 1024 * 1024>> : k \in (-1)..MaxThreshold }

\* ------------------------------------------------- Scanner.CalculateGrowth
CalculateGrowthIntervalUnguarded(s1, s2) == s2.Timestamp - s1.Timestamp

CalculateGrowthInterval(s1, s2) ==
    LET interval == s2.Timestamp - s1.Timestamp IN
    IF interval <= 0 THEN TicksPerSecond ELSE interval

CalculateGrowthKeysBoth(s1, s2) == DOMAIN s1.Files \cup DOMAIN s2.Files

\* the keys the range statement visits
CalculateGrowthKeys(s1, s2) == DOMAIN s2.Files

CalculateGrowthEntryNoSubtract(growing, path, s1, s2, threshold, interval) ==
    LET info2 == MapIndex(s2.Files, path).info
        look1 == MapIndex(s1.Files, path)
        info1 == look1.info
    IN  IF ~look1.exists
        THEN IF info2.Size >= threshold
             THEN Append(growing, [Path |-> path, InitialSize |-> 0,
                     FinalSize |-> info2.Size, GrowthBytes |-> info2.Size,
                     GrowthRate |-> RatePerSecond(info2.Size, interval),
                     Interval |-> interval])
             ELSE growing
        ELSE LET growth == info2.Size IN
             IF growth >= threshold
             THEN Append(growing, [Path |-> path, InitialSize |-> info1.Size,
                     FinalSize |-> info2.Size, GrowthBytes |-> growth,
                     GrowthRate |-> RatePerSecond(growth, interval),
                     Interval |-> interval])
             ELSE growing

CalculateGrowthEntryRateOfFinal(growing, path, s1, s2, threshold, interval) ==
    LET info2 == MapIndex(s2.Files, path).info
        look1 == MapIndex(s1.Files, path)
        info1 == look1.info
    IN  IF ~look1.exists
        THEN IF info2.Size >= threshold
             THEN Append(growing, [Path |-> path, InitialSize |-> 0,
                     FinalSize |-> info2.Size, GrowthBytes |-> info2.Size,
                     GrowthRate |-> RatePerSecond(info2.Size, interval),
                     Interval |-> interval])
             ELSE growing
        ELSE LET growth == info2.Size - info1.Size IN
             IF growth >= threshold
             THEN Append(growing, [Path |-> path, InitialSize |-> info1.Size,
                     FinalSize |-> info2.Size, GrowthBytes |-> growth,
                     GrowthRate |-> RatePerSecond(info2.Size, interval),
                     Interval |-> interval])
             ELSE growing

\* one iteration of the range loop: growing after visiting path
CalculateGrowthEntry(growing, path, s1, s2, threshold, interval) ==
    LET info2 == MapIndex(s2.Files, path).info
        look1 == MapIndex(s1.Files, path)
        info1 == look1.info
    IN  IF ~look1.exists
        THEN IF info2.Size >= threshold
             THEN Append(growing, [Path |-> path, InitialSize |-> 0,
                     FinalSize |-> info2.Size, GrowthBytes |-> info2.Size,
                     GrowthRate |-> RatePerSecond(info2.Size, interval),
                     Interval |-> interval])
             ELSE growing
        ELSE LET growth == info2.Size - info1.Size IN
             IF growth >= threshold
             THEN Append(growing, [Path |-> path, InitialSize |-> info1.Size,
                     FinalSize |-> info2.Size, GrowthBytes |-> growth,
                     GrowthRate |-> RatePerSecond(growth, interval),
                     Interval |-> interval])
             ELSE growing

\* the range loop run over the keys in the given iteration order
RECURSIVE CalculateGrowthRange(_, _, _, _, _, _)
CalculateGrowthRange(order, k, s1, s2, threshold, interval) ==
    IF k = 0 THEN <<>>
    ELSE CalculateGrowthEntry(
            CalculateGrowthRange(order, k - 1, s1, s2, threshold, interval),
            order[k], s1, s2, threshold, interval)

\* less of the sort.Slice call: growing[i].GrowthRate > growing[j].GrowthRate
LessByGrowthRate(growing, i, j) ==
    FloatGT(growing[i].GrowthRate, growing[j].GrowthRate)

Swap(s, i, j) == [s EXCEPT ![i] = s[j], ![j] = s[i]]

\* inner loop of the insertion sort: sink element j while it is less than
\* its left neighbour
RECURSIVE SortSink(_, _)
SortSink(s, j) ==
    IF j > 1 /\ LessByGrowthRate(s, j, j - 1)
    THEN SortSink(Swap(s, j, j - 1), j - 1)
    ELSE s

\* sort.Slice on a short slice is an insertion sort: elements 2..Len(s) are
\* sunk in turn
RECURSIVE SortSliceFrom(_, _)
SortSliceFrom(s, i) ==
    IF i > Len(s) THEN s ELSE SortSliceFrom(SortSink(s, i), i + 1)

SortSlice(s) == SortSliceFrom(s, 2)

\* the sequences that visit every element of set exactly once: the possible
\* iteration orders of a Go map with these keys
IterationOrders(set) ==
    { o \in [1..Cardinality(set) -> set] : \A i, j \in DOMAIN o : i # j => o[i] # o[j] }

\* --------------------------------------------------------- CompareSnapshots
CompareSnapshotsInterval(s1, s2) ==
    LET interval == s2.Timestamp - s1.Timestamp IN
    IF interval <= 0 THEN TicksPerSecond ELSE interval

CompareSnapshotsEntryStrict(growing, path, s1, s2, threshold, interval) ==
    LET info2 == MapIndex(s2.Files, path).info
        look1 == MapIndex(s1.Files, path)
        info1 == look1.info
    IN  IF info2.IsDir THEN growing
        ELSE IF ~look1.exists
        THEN IF info2.Size > threshold
             THEN Append(growing, [Path |-> path, InitialSize |-> 0,
                     FinalSize |-> info2.Size, GrowthBytes |-> info2.Size,
                     GrowthRate |-> RatePerSecond(info2.Size, interval),
                     Interval |-> interval])
             ELSE growing
        ELSE LET growth == info2.Size - info1.Size IN
             IF growth >= threshold
             THEN Append(growing, [Path |-> path, InitialSize |-> info1.Size,
                     FinalSize |-> info2.Size, GrowthBytes |-> growth,
                     GrowthRate |-> RatePerSecond(growth, interval),
                     Interval |-> interval])
             ELSE growing

\* one iteration of the range loop: growing after visiting path
CompareSnapshotsEntry(growing, path, s1, s2, threshold, interval) ==
    LET info2 == MapIndex(s2.Files, path).info
        look1 == MapIndex(s1.Files, path)
        info1 == look1.info
    IN  IF info2.IsDir THEN growing
        ELSE IF ~look1.exists
        THEN IF info2.Size >= threshold
             THEN Append(growing, [Path |-> path, InitialSize |-> 0,
                     FinalSize |-> info2.Size, GrowthBytes |-> info2.Size,
                     GrowthRate |-> RatePerSecond(info2.Size, interval),
                     Interval |-> interval])
             ELSE growing
        ELSE LET growth == info2.Size - info1.Size IN
             IF growth >= threshold
             THEN Append(growing, [Path |-> path, InitialSize |-> info1.Size,
                     FinalSize |-> info2.Size, GrowthBytes |-> growth,
                     GrowthRate |-> RatePerSecond(growth, interval),
                     Interval |-> interval])
             ELSE growing

RECURSIVE CompareSnapshotsRange(_, _, _, _, _, _)
CompareSnapshotsRange(order, k, s1, s2, threshold, interval) ==
    IF k = 0 THEN <<>>
    ELSE CompareSnapshotsEntry(
            CompareSnapshotsRange(order, k - 1, s1, s2, threshold, interval),
            order[k], s1, s2, threshold, interval)

\* ------------------------------------------------------- service resolver
\* Strings that the resolver searches and concatenates are sequences of
\* characters.

\* the catalogue of getServiceNameFromComm, in its order
serviceNames ==
    << <<"a", "p", "a", "c", "h", "e", "2">>,
       <<"n", "g", "i", "n", "x">>,
       <<"m", "y", "s", "q", "l">>,
       <<"p", "o", "s", "t", "g", "r", "e", "s">>,
       <<"r", "e", "d", "i", "s">>,
       <<"d", "o", "c", "k", "e", "r">>,
       <<"c", "o", "n", "t", "a", "i", "n", "e", "r", "d">>,
       <<"t", "o", "m", "c", "a", "t">>,
       <<"j", "a", "v", "a">>,
       <<"n", "o", "d", "e">>,
       <<"p", "y", "t", "h", "o", "n">>,
       <<"p", "h", "p">>,
       <<"r", "u", "b", "y">>,
       <<"m", "o", "n", "g", "o", "d">>,
       <<"e", "l", "a", "s", "t", "i", "c", "s", "e", "a", "r", "c", "h">> >>

DotService == <<".", "s", "e", "r", "v", "i", "c", "e">>

\* "unknown (fallback)"
FallbackStatus == "unknown (fallback)"

UpperLetters ==
    << "A", "B", "C", "D", "E", "F", "G", "H", "I", "J", "K", "L", "M",
       "N", "O", "P", "Q", "R", "S", "T", "U", "V", "W", "X", "Y", "Z" >>

LowerLetters ==
    << "a", "b", "c", "d", "e", "f", "g", "h", "i", "j", "k", "l", "m",
       "n", "o", "p", "q", "r", "s", "t", "u", "v", "w", "x", "y", "z" >>

\* the lower-case letter of each upper-case letter
LowerOf ==
    [c \in {UpperLetters[k] : k \in DOMAIN UpperLetters} |->
        LowerLetters[CHOOSE k \in DOMAIN UpperLetters : UpperLetters[k] = c]]

\* strings.ToLower
ToLower(str) ==
    [i \in DOMAIN str |->
        IF str[i] \in DOMAIN LowerOf THEN LowerOf[str[i]] ELSE str[i]]

\* strings.Contains(str, sub)
Contains(str, sub) ==
    \E i \in 1..(Len(str) - Len(sub) + 1) : SubSeq(str, i, i + Len(sub) - 1) = sub

IsSpace(c) == c \in {" ", "\n", "\t", "\r"}

\* strings.TrimSpace
RECURSIVE TrimSpace(_)
TrimSpace(str) ==
    IF str = <<>> THEN str
    ELSE IF IsSpace(Head(str)) THEN TrimSpace(Tail(str))
    ELSE IF IsSpace(str[Len(str)]) THEN TrimSpace(SubSeq(str, 1, Len(str) - 1))
    ELSE str

\* a /proc file that cannot be read (the process is gone, or no permission)
Unreadable == <<"unreadable">>

\* a call through a nil or failing D-Bus path
ManagerError == [error |-> "GetUnitByPID"]

\* types.ServiceInfo
ServiceInfo(unit, status, mainPID, description) ==
    [Unit |-> unit, Status |-> status, MainPID |-> mainPID, Description |-> description]

\* the nil *types.ServiceInfo
NoServiceInfo == [nil |-> TRUE]

\* Resolver.resolveWithSystemd: GetUnitByPID, then the unit's properties.  A
\* failed GetUnitByPID is the only error; a failed Id falls back to the unit
\* path, the other properties keep their zero values when they fail.
resolveWithSystemd(mgr, pid) ==
    IF mgr = ManagerError
    THEN [info |-> NoServiceInfo, err |-> "GetUnitByPID"]
    ELSE [info |-> ServiceInfo(IF mgr.idOK THEN mgr.id ELSE mgr.unitPath,
                               IF mgr.propsOK THEN mgr.activeState ELSE "",
                               IF mgr.propsOK THEN mgr.mainPID ELSE 0,
                               IF mgr.propsOK THEN mgr.description ELSE ""),
          err |-> "nil"]

\* the catalogue names that comm, lower-cased, contains
MatchedNames(comm) ==
    LET lower == ToLower(comm) IN
    { k \in DOMAIN serviceNames : Contains(lower, serviceNames[k]) }

\* Resolver.getServiceNameFromComm: "" when comm cannot be read or contains
\* no catalogue name, else comm + ".service"
getServiceNameFromComm(table, pid) ==
    IF pid \notin DOMAIN table \/ table[pid].comm = Unreadable THEN <<>>
    ELSE LET comm == TrimSpace(table[pid].comm) IN
         IF MatchedNames(comm) # {} THEN comm \o DotService ELSE <<>>

\* Resolver.getParentPID: the second field after the last ")" of
\* /proc/[pid]/stat; an unreadable or short stat is an error
getParentPID(table, pid) ==
    IF pid \notin DOMAIN table \/ table[pid].stat = Unreadable
    THEN [ppid |-> 0, err |-> "read"]
    ELSE IF Len(table[pid].stat) < 2 THEN [ppid |-> 0, err |-> "invalid stat format"]
    ELSE [ppid |-> table[pid].stat[2], err |-> "nil"]

NotResolvedOfCurrent(pid, currentPID, examined) ==
    [info |-> NoServiceInfo, err |-> "could not resolve PID", errPID |-> currentPID,
     examined |-> examined]

\* fmt.Errorf("could not resolve PID %d to a service", pid): the error the
\* walk ends with, pid being the argument of the call and currentPID the
\* PID the walk had reached
NotResolved(pid, currentPID, examined) ==
    [info |-> NoServiceInfo, err |-> "could not resolve PID", errPID |-> pid,
     examined |-> examined]

WalkContinuesFromRoot(currentPID) == currentPID > 0

\* the loop condition of the walk: for currentPID > 1
WalkContinues(currentPID) == currentPID > 1

\* Resolver.resolveFromProcessTree from currentPID on; examined lists the
\* PIDs whose comm has been looked at so far
RECURSIVE TreeWalk(_, _, _, _)
TreeWalk(table, pid, currentPID, examined) ==
    IF ~WalkContinues(currentPID)
    THEN NotResolved(pid, currentPID, examined)
    ELSE LET serviceName == getServiceNameFromComm(table, currentPID)
             parent == getParentPID(table, currentPID)
             seen == Append(examined, currentPID)
         IN  IF serviceName # <<>>
             THEN [info |-> ServiceInfo(serviceName, FallbackStatus, currentPID, ""),
                   err |-> "nil", errPID |-> 0, examined |-> seen]
             ELSE IF parent.err # "nil" \/ parent.ppid <= 1
             THEN NotResolved(pid, currentPID, seen)
             ELSE TreeWalk(table, pid, parent.ppid, seen)

resolveFromProcessTree(table, pid) == TreeWalk(table, pid, pid, <<>>)

\* tier 1 is consulted exactly when a connection exists
Tier1Consulted(c) == c

Tier1AcceptedInverted(t1) == t1.err # "nil" /\ t1.info # NoServiceInfo

\* tier 1's answer is returned exactly when it carries no error and an info
Tier1Accepted(t1) == t1.err = "nil" /\ t1.info # NoServiceInfo

\* no ResolveService call has been made
NoResolution ==
    [pid |-> 0, tier1 |-> "none", tier2 |-> FALSE, examined |-> <<>>,
     info |-> NoServiceInfo, err |-> "nil", errPID |-> 0]

ResolverIdle ==
    /\ conn = FALSE
    /\ manager = ManagerError
    /\ proc = <<>>
    /\ resolved = NoResolution

\* ------------------------------------------------------------ action.Killer
\* the killer's clock ticks every 100 ms
PollSleep == 1         \* time.Sleep(100 * time.Millisecond) between probes
KillGrace == 5         \* time.Sleep(500 * time.Millisecond) after SIGKILL

\* proc.Signal on the target: ErrProcessDone when it is gone, another error
\* when the caller may not signal it, nil otherwise
SignalOutcome(tg) ==
    IF ~tg.alive THEN "done" ELSE IF tg.permitted THEN "ok" ELSE "eperm"

processExistsOnlyIfDenied(tg) == SignalOutcome(tg) = "eperm"

\* Killer.processExists: Signal(0) returned no error
processExists(tg) == SignalOutcome(tg) = "ok"

\* what Kill returns when sending SIGTERM failed
KillTermReturn(outcome) ==
    IF outcome = "done" THEN "nil" ELSE "failed to send SIGTERM"

KillForceReturnStrict(outcome) == "failed to send SIGKILL"

\* what Kill returns when sending SIGKILL failed
KillForceReturn(outcome) ==
    IF outcome = "done" THEN "nil" ELSE "failed to send SIGKILL"

SendSignalReturnLenient(outcome) ==
    IF outcome \in {"ok", "done"} THEN "nil" ELSE "failed to send signal"

\* what SendSignal returns for the outcome of its one proc.Signal
SendSignalReturn(outcome) ==
    IF outcome = "ok" THEN "nil" ELSE "failed to send signal"

TimerDueAtOnce(deadline, t) == TRUE

\* a timer set for deadline has expired at time t
TimerDue(deadline, t) == t >= deadline

\* the signals SendSignal is called with
Signals == {"SIGHUP", "SIGSTOP"}

KillerNotCalled ==
    [pc |-> "idle", timeout |-> 0, result |-> "none", termAt |-> 0,
     timerAt |-> 0, woken |-> "none", forceAt |-> 0, graceAt |-> 0]

PollerOff == [pc |-> "off", wakeAt |-> 0, absent |-> "no"]

NoSendSignal == [n |-> 0, sig |-> "none", err |-> "nil"]

KillerIdle ==
    /\ target = [alive |-> FALSE, permitted |-> FALSE]
    /\ killer = KillerNotCalled
    /\ poller = PollerOff
    /\ done = 0
    /\ timerC = 0
    /\ now = 0
    /\ sigLog = <<>>
    /\ sendCall = NoSendSignal

\* ---------------------------------------------------------- scanner: files
\* the directory tree under scan: every node has a base name, a kind, a
\* size and, for a directory, its entries in the order os.ReadDir lists them

TreeNode(name, kind, parent, children, size) ==
    [name |-> name, kind |-> kind, parent |-> parent, children |-> children,
     size |-> size]

Tree ==
    << TreeNode(<<"l", "o", "g", "s">>, "dir", 0, <<2, 3>>, 0),
       TreeNode(<<"a", ".", "g", "z">>, "file", 1, <<>>, 1),
       TreeNode(<<"d">>, "dir", 1, <<4, 5, 6>>, 0),
       TreeNode(<<"c", ".", "g", "z">>, "file", 3, <<>>, 2),
       TreeNode(<<"e", ".", "l", "o", "g">>, "file", 3, <<>>, 1),
       TreeNode(<<"s", "u", "b">>, "dir", 3, <<7, 8>>, 0),
       TreeNode(<<"c", "u", "r">>, "symlink", 6, <<>>, 1),
       TreeNode(<<"f", ".", "l", "o", "g">>, "file", 6, <<>>, 1) >>

Nodes == DOMAIN Tree

\* the pattern "*.gz"
StarGz == <<"*", ".", "g", "z">>

\* filepath.Match for patterns made of literal characters and "*", which
\* matches any run of characters other than the separator
RECURSIVE Match(_, _)
Match(pattern, name) ==
    IF pattern = <<>> THEN name = <<>>
    ELSE IF Head(pattern) = "*"
    THEN \/ Match(Tail(pattern), name)
         \/ name # <<>> /\ Head(name) # "/" /\ Match(pattern, Tail(name))
    ELSE name # <<>> /\ Head(name) = Head(pattern)
         /\ Match(Tail(pattern), Tail(name))

\* filepath.Join(path, entry.Name()) along the tree: the full path of a node
RECURSIVE FullPath(_)
FullPath(n) ==
    IF Tree[n].parent = 0 THEN <<"/">> \o Tree[n].name
    ELSE FullPath(Tree[n].parent) \o <<"/">> \o Tree[n].name

\* Scanner.isExcluded
isExcluded(cfg, name) ==
    \E k \in DOMAIN cfg.ExcludePatterns : Match(cfg.ExcludePatterns[k], name)

isExcludedEntryByPath(cfg, n) == isExcluded(cfg, FullPath(n))

\* walkDirectory's call s.isExcluded(entry.Name())
isExcludedEntry(cfg, n) == isExcluded(cfg, Tree[n].name)

\* walkDirectory skips symlinks unless FollowSymlinks, and excluded names
Skipped(cfg, n) ==
    \/ Tree[n].kind = "symlink" /\ ~cfg.FollowSymlinks
    \/ isExcludedEntry(cfg, n)

TooDeepByTwo(cfg, depth) == cfg.MaxDepth > 0 /\ depth > cfg.MaxDepth + 1

\* walkDirectory's depth cut
TooDeep(cfg, depth) == cfg.MaxDepth > 0 /\ depth > cfg.MaxDepth

\* stat of node n succeeded (os.Stat follows symlinks, here to a file)
statFile(n) == FileInfo(n, Tree[n].size, Tree[n].kind = "dir")

\* a channel of the given capacity: its buffer and whether it is closed
OpenChan == [buf |-> <<>>, closed |-> FALSE]

\* types.Snapshot before any result is collected
EmptySnapshot == [Timestamp |-> 0, Files |-> <<>>, TotalSize |-> 0, FileCount |-> 0]

\* nothing has happened in the snapshot yet
NoHistory ==
    [enqueued |-> {}, statOK |-> {}, statFailed |-> {}, readOK |-> {},
     readFailed |-> {}, cancelAt |-> "none"]

ProducerOff == [pc |-> "off", stack |-> <<>>]

TakeIdle == [pc |-> "idle", err |-> "none"]

\* Scan's returned *types.ScanResult when it is nil
NoScanResult == [nil |-> TRUE]

ScanOff ==
    [pc |-> "off", snapshots |-> 0, timerC |-> 0, woken |-> "none",
     cancelledInWait |-> FALSE, snap1 |-> EmptySnapshot,
     result |-> NoScanResult, err |-> "none"]

\* scanner.DefaultConfig with one root
DefaultConfig ==
    [Paths |-> <<1>>, WorkerCount |-> 1, MaxDepth |-> 0,
     FollowSymlinks |-> FALSE, ExcludePatterns |-> <<>>, Interval |-> 0,
     ThresholdBytes |-> 0]

\* no TakeSnapshot or Scan call has been made
ScannerNotStarted ==
    /\ cancelled = FALSE
    /\ producer = ProducerOff
    /\ fileChan = OpenChan
    /\ workers = <<>>
    /\ resultChan = OpenChan
    /\ closer = "off"
    /\ snapshot = EmptySnapshot
    /\ take = TakeIdle
    /\ hist = NoHistory
    /\ scan = ScanOff

ScannerIdle == config = DefaultConfig /\ ScannerNotStarted

\* no FindProcessForFile call has been made
NoFind ==
    [pc |-> "idle", tier1 |-> [pids |-> <<>>, err |-> "none"], tier2 |-> FALSE,
     pids |-> <<>>,
     entries |-> <<>>, lookups |-> <<>>, processes |-> <<>>, err |-> "none"]

MapperIdle ==
    /\ fdHolders = <<>>
    /\ tools = [lsof |-> "missing", procfs |-> FALSE]
    /\ find = NoFind

\* no severity function has been called
NotClassified == [fn |-> "none", class |-> "none"]

SeverityIdle == bytesPerSec = <<0, 1>> /\ classified = NotClassified

\* no Walk call has been made
WalkerOff ==
    [pc |-> "off", paths |-> <<>>, roots |-> <<>>, todo |-> <<>>, files |-> <<>>,
     err |-> "none"]

WalkerIdle == walker = WalkerOff

RestIdle == MapperIdle /\ SeverityIdle /\ WalkerIdle

\* ------------------------------------------------------------------ state
\* The diffs use a path only as a map key and copy it into the entry, so
\* renaming the paths of an input renames the paths of the output and changes
\* nothing else.  Of the inputs that are renamings of one another, InitSmall
\* draws one: that in which the paths, ordered by what the two snapshots hold
\* for them, are in increasing order.
EntryCode(files, p) ==
    IF p \notin DOMAIN files THEN 0
    ELSE 1 + 2 * files[p].Size + (IF files[p].IsDir THEN 1 ELSE 0)

PathCode(f1, f2, p) == EntryCode(f1, p) * (2 * MaxSize + 3) + EntryCode(f2, p)

PathsInOrder(f1, f2) ==
    \A p, q \in Paths : p < q => PathCode(f1, f2, p) <= PathCode(f1, f2, q)

\* arbitrary small snapshots, thresholds and timestamps: the earlier snapshot
\* is stamped tick 1, the later one before, at or after it.  Neither diff
\* reads the IsDir flag of an entry of the earlier snapshot, so the earlier
\* snapshot is drawn with regular files only; directory entries (a followed
\* symlink that resolves to a directory) occur in the later snapshot.
InitSmall ==
    \E f1 \in FileMaps(0..MaxSize, {FALSE}), f2 \in FileMaps(0..MaxSize, BOOLEAN) :
        /\ PathsInOrder(f1, f2)
        /\ snap1 = [Timestamp |-> 1, Files |-> f1]
        /\ \E t2 \in 0..MaxTime : snap2 = [Timestamp |-> t2, Files |-> f2]
        /\ \E mb \in GrowthMBs : thresholdBytes = GetThresholdBytes(mb)

\* one arbitrary snapshot, directory entries included, diffed against itself
InitSelfDiff ==
    /\ \E f \in FileMaps(0..MaxSize, BOOLEAN), t \in 0..MaxTime :
          snap1 = [Timestamp |-> t, Files |-> f]
    /\ snap2 = snap1
    /\ \E mb \in GrowthMBs : thresholdBytes = GetThresholdBytes(mb)

\* the end-to-end case: app.log at 1,000,000 bytes, then at 11,500,000 bytes
\* five seconds later, default threshold of 10 MB; other paths are arbitrary
InitEndToEnd ==
    /\ \E f1 \in FileMaps(0..MaxSize, {FALSE}), t1 \in 0..MaxTime :
          /\ AppLog \in DOMAIN f1
          /\ snap1 = [Timestamp |-> t1,
                      Files |-> [f1 EXCEPT ![AppLog] = FileInfo(AppLog, 1000000, FALSE)]]
    /\ \E f2 \in FileMaps(0..MaxSize, BOOLEAN) :
          /\ AppLog \in DOMAIN f2
          /\ snap2 = [Timestamp |-> snap1.Timestamp + 5 * TicksPerSecond,
                      Files |-> [f2 EXCEPT ![AppLog] = FileInfo(AppLog, 11500000, FALSE)]]
    /\ thresholdBytes = GetThresholdBytes(<<10, 1>>)

Init ==
    /\ returned = NoCall
    /\ (InitSmall \/ InitSelfDiff \/ InitEndToEnd)
    /\ ResolverIdle
    /\ KillerIdle
    /\ ScannerIdle
    /\ RestIdle

\* s.CalculateGrowth(snap1, snap2) with s.config.ThresholdBytes = thresholdBytes
CalculateGrowth ==
    /\ \E order \in IterationOrders(CalculateGrowthKeys(snap1, snap2)) :
          LET interval == CalculateGrowthInterval(snap1, snap2)
              growing == CalculateGrowthRange(order, Len(order), snap1, snap2,
                                              thresholdBytes, interval)
          IN  returned' = [fn |-> "CalculateGrowth", growing |-> SortSlice(growing)]
    /\ UNCHANGED <<snap1, snap2, thresholdBytes>>
    /\ UNCHANGED <<resolverVars, killerVars, scannerVars, restVars>>

\* CompareSnapshots(snap1, snap2, thresholdBytes)
CompareSnapshots ==
    /\ \E order \in IterationOrders(DOMAIN snap2.Files) :
          LET interval == CompareSnapshotsInterval(snap1, snap2)
              growing == CompareSnapshotsRange(order, Len(order), snap1, snap2,
                                               thresholdBytes, interval)
          IN  returned' = [fn |-> "CompareSnapshots", growing |-> growing]
    /\ UNCHANGED <<snap1, snap2, thresholdBytes>>
    /\ UNCHANGED <<resolverVars, killerVars, scannerVars, restVars>>

Next == CalculateGrowth \/ CompareSnapshots

Spec == Init /\ [][Next]_vars

\* ----------------------------------------------------------------- claims
\* a diff call has returned
Returned == returned.fn # "none"

\* the FileGrowth entries of the returned list
Entries == { returned.growing[k] : k \in DOMAIN returned.growing }

\* C1: every FileGrowth returned by either diff has GrowthBytes >= threshold
\* and GrowthBytes = FinalSize - InitialSize, InitialSize being the path's
\* size in the earlier snapshot, or 0 when the path is absent from it.
C1_GrowthAtLeastThreshold ==
    \A g \in Entries :
        /\ g.GrowthBytes >= thresholdBytes
        /\ g.GrowthBytes = g.FinalSize - g.InitialSize
        /\ g.InitialSize = (IF g.Path \in DOMAIN snap1.Files
                            THEN snap1.Files[g.Path].Size ELSE 0)

\* CalculateGrowth reported a path that had a non-zero size earlier next to a
\* path that is new
C1_Witness ==
    /\ returned.fn = "CalculateGrowth"
    /\ \E g \in Entries : g.Path \in DOMAIN snap1.Files /\ g.InitialSize > 0
    /\ \E g \in Entries : g.Path \notin DOMAIN snap1.Files

\* C2: the list returned by either diff is sorted non-increasing by
\* GrowthRate: no later entry has a rate greater than an earlier one.
C2_SortedByGrowthRate ==
    \A i, j \in DOMAIN returned.growing :
        i < j => ~FloatGT(returned.growing[j].GrowthRate, returned.growing[i].GrowthRate)

\* C3: a path whose size in the later snapshot is smaller than in the
\* earlier one is never in the diff output, whatever the threshold.
C3_TruncationNeverReported ==
    \A g \in Entries :
        ~(/\ g.Path \in DOMAIN snap1.Files
          /\ g.Path \in DOMAIN snap2.Files
          /\ snap2.Files[g.Path].Size < snap1.Files[g.Path].Size)

\* C4: no FileGrowth is produced for a path whose entry in the later
\* snapshot is a directory, by either entry point.
C4_NoDirectoryReported ==
    \A g \in Entries :
        g.Path \in DOMAIN snap2.Files => ~snap2.Files[g.Path].IsDir

\* a path present only in the later snapshot is reported iff its size is at
\* least the threshold, and then with InitialSize 0 and FinalSize =
\* GrowthBytes = its size
NewPathReportedIff(p) ==
    LET size == snap2.Files[p].Size IN
    /\ (\E g \in Entries : g.Path = p) <=> size >= thresholdBytes
    /\ \A g \in Entries : g.Path = p =>
          g.InitialSize = 0 /\ g.FinalSize = size /\ g.GrowthBytes = size

OnlyInLater == DOMAIN snap2.Files \ DOMAIN snap1.Files

\* C5 as stated: every path present only in the later snapshot, with size S,
\* is reported by either diff iff S >= threshold, with InitialSize 0,
\* FinalSize S and GrowthBytes S.
C5_NewPathReportedIff ==
    Returned => \A p \in OnlyInLater : NewPathReportedIff(p)

\* C5 amended: every non-directory path present only in the later snapshot,
\* with size S, is reported by either diff iff S >= threshold, with
\* InitialSize 0, FinalSize S and GrowthBytes S.
C5_NewFileReportedIff ==
    Returned => \A p \in OnlyInLater :
        ~snap2.Files[p].IsDir => NewPathReportedIff(p)

\* CompareSnapshots returned for a pair of snapshots in which one new file
\* sits exactly at the threshold (reported) and another below it (not)
C5_Witness ==
    /\ returned.fn = "CompareSnapshots"
    /\ \E p, q \in OnlyInLater :
          /\ ~snap2.Files[p].IsDir /\ snap2.Files[p].Size = thresholdBytes
          /\ ~snap2.Files[q].IsDir /\ snap2.Files[q].Size < thresholdBytes
          /\ \E g \in Entries : g.Path = p
          /\ ~(\E g \in Entries : g.Path = q)

\* C6: diffing a snapshot against itself yields the empty list for every
\* threshold greater than zero.
C6_SelfDiffEmpty ==
    (Returned /\ snap1 = snap2 /\ thresholdBytes > 0) => returned.growing = <<>>

\* CalculateGrowth diffed a snapshot against itself, the snapshot holding a
\* file at least as large as the positive threshold and a directory entry
C6_Witness ==
    /\ returned.fn = "CalculateGrowth"
    /\ snap1 = snap2 /\ thresholdBytes > 0
    /\ \E p \in DOMAIN snap1.Files :
          ~snap1.Files[p].IsDir /\ snap1.Files[p].Size >= thresholdBytes
    /\ \E p \in DOMAIN snap1.Files : snap1.Files[p].IsDir

\* C7: every FileGrowth carries Interval = later.Timestamp - earlier.Timestamp
\* when that is positive and exactly one second otherwise; GrowthRate is
\* GrowthBytes divided by that interval in seconds, the divisor never zero.
C7_IntervalAndRate ==
    \A g \in Entries :
        LET d == snap2.Timestamp - snap1.Timestamp IN
        /\ g.Interval = (IF d > 0 THEN d ELSE TicksPerSecond)
        /\ g.Interval # 0
        /\ g.GrowthRate[2] # 0
        /\ g.GrowthRate[1] * g.Interval = g.GrowthBytes * TicksPerSecond * g.GrowthRate[2]

\* CalculateGrowth reported real growth between snapshots whose timestamps
\* are reversed
C7_Witness ==
    /\ returned.fn = "CalculateGrowth"
    /\ snap2.Timestamp < snap1.Timestamp
    /\ \E g \in Entries : g.GrowthBytes > 0

\* the end-to-end inputs: app.log, a regular file, at 1,000,000 bytes and
\* 11,500,000 bytes five seconds later, threshold 10,485,760 bytes
EndToEndInputs ==
    /\ AppLog \in DOMAIN snap1.Files /\ AppLog \in DOMAIN snap2.Files
    /\ snap1.Files[AppLog] = FileInfo(AppLog, 1000000, FALSE)
    /\ snap2.Files[AppLog] = FileInfo(AppLog, 11500000, FALSE)
    /\ snap2.Timestamp - snap1.Timestamp = 5 * TicksPerSecond
    /\ thresholdBytes = 10485760

\* C8: on the end-to-end inputs the diff reports exactly one entry for
\* app.log, with GrowthBytes = 10,500,000 and GrowthRate = 2,100,000 bytes/sec.
C8_EndToEnd ==
    (Returned /\ EndToEndInputs) =>
        /\ Cardinality({ k \in DOMAIN returned.growing :
                            returned.growing[k].Path = AppLog }) = 1
        /\ \A g \in Entries : g.Path = AppLog =>
              /\ g.GrowthBytes = 10500000
              /\ g.GrowthRate[2] # 0
              /\ g.GrowthRate[1] = 2100000 * g.GrowthRate[2]

\* CalculateGrowth returned on the end-to-end inputs
C8_Witness ==
    /\ returned.fn = "CalculateGrowth"
    /\ EndToEndInputs

\* C9: every path in the diff output is a key of the later snapshot; a path
\* present earlier and absent later never appears.
C9_DeletedNotReported ==
    \A g \in Entries : g.Path \in DOMAIN snap2.Files

\* CalculateGrowth returned a non-empty list although a file of the earlier
\* snapshot, at least as large as the threshold, is gone from the later one
C9_Witness ==
    /\ returned.fn = "CalculateGrowth"
    /\ \E p \in DOMAIN snap1.Files \ DOMAIN snap2.Files :
          snap1.Files[p].Size >= thresholdBytes
    /\ Entries # {}

\* C10: a second run of the same diff entry point on the same inputs returns
\* the same sequence as the run before it, ties included, whatever the map
\* iteration order.
C10_SameOrderOnRerun ==
    [][(Returned /\ returned'.fn = returned.fn)
          => returned'.growing = returned.growing]_vars

\* ------------------------------------------------- service resolver: state
\* command names as /proc/[pid]/comm holds them, newline included
Comms ==
    { <<"n", "g", "i", "n", "x", "\n">>,
      <<"m", "y", "s", "q", "l", "d", "\n">>,
      <<"N", "g", "i", "n", "x", "\n">>,
      <<"b", "a", "s", "h", "\n">> }

\* the PIDs a caller may pass: none, invalid, the root process, any other
PidArgs == (-1)..MaxPid

\* the PID reached from p after k parent lookups, 0 once the chain has ended
RECURSIVE Climb(_, _, _)
Climb(table, p, k) ==
    IF k = 0 THEN p
    ELSE IF p \notin DOMAIN table \/ p <= 1 \/ table[p].stat = Unreadable THEN 0
    ELSE Climb(table, table[p].stat[2], k - 1)

\* the parent relation of a process table has no cycle
Acyclic(table) == \A p \in DOMAIN table : Climb(table, p, MaxPid) = 0

\* process tables: PID 1 is the root process; every other PID has a comm and
\* a stat, each readable or not, and a parent other than itself
ProcTables ==
    { [p \in 1..MaxPid |->
          IF p = 1 THEN [comm |-> <<"s", "y", "s", "t", "e", "m", "d", "\n">>,
                             stat |-> <<"S", 0>>] ELSE t[p]] :
      t \in [2..MaxPid -> [comm : Comms \cup {Unreadable},
                           stat : {Unreadable} \cup
                                  { <<"S", n>> : n \in 0..MaxPid }]] }

UnitPath == <<"/", "u", "n", "i", "t", "/", "1">>

\* what GetUnitByPID and the property reads may answer
ManagerAnswers ==
    {ManagerError} \cup
    { [unitPath |-> UnitPath, id |-> serviceNames[2] \o DotService, idOK |-> ok,
       propsOK |-> ok, activeState |-> "active", mainPID |-> 1,
       description |-> "web server"] : ok \in BOOLEAN }

InitResolver ==
    /\ conn \in BOOLEAN
    /\ manager \in ManagerAnswers
    /\ (~conn => manager = ManagerError)
    /\ proc \in ProcTables
    /\ Acyclic(proc)
    /\ resolved = NoResolution

\* r.ResolveService(pid)
ResolveService ==
    /\ resolved = NoResolution
    /\ \E pid \in PidArgs :
          LET consulted == Tier1Consulted(conn)
              t1 == IF consulted THEN resolveWithSystemd(manager, pid)
                    ELSE [info |-> NoServiceInfo, err |-> "nil"]
              t2 == resolveFromProcessTree(proc, pid)
          IN  resolved' =
                IF consulted /\ Tier1Accepted(t1)
                THEN [pid |-> pid, tier1 |-> "resolved", tier2 |-> FALSE,
                      examined |-> <<>>, info |-> t1.info, err |-> "nil",
                      errPID |-> 0]
                ELSE [pid |-> pid,
                      tier1 |-> IF consulted THEN "not found" ELSE "unavailable",
                      tier2 |-> TRUE, examined |-> t2.examined,
                      info |-> t2.info, err |-> t2.err, errPID |-> t2.errPID]
    /\ UNCHANGED <<conn, manager, proc>>
    /\ UNCHANGED <<diffVars, killerVars, scannerVars, restVars>>

DiffIdle ==
    /\ snap1 = [Timestamp |-> 0, Files |-> <<>>]
    /\ snap2 = [Timestamp |-> 0, Files |-> <<>>]
    /\ thresholdBytes = 0
    /\ returned = NoCall

InitResolve == InitResolver /\ DiffIdle /\ KillerIdle /\ ScannerIdle /\ RestIdle

NextResolve == ResolveService

SpecResolve == InitResolve /\ [][NextResolve]_vars

\* a ResolveService call has returned
Resolved == resolved.tier1 # "none"

\* C19: ResolveService invokes tier 2 iff tier 1 was unavailable (no service
\* manager connection) or found nothing (the manager query for the PID
\* failed); whenever the manager names a unit, that ServiceInfo is returned
\* and tier 2 is not invoked.
C19_Tier2IffTier1Failed ==
    Resolved =>
        /\ resolved.tier2 <=> (~conn \/ manager = ManagerError)
        /\ (conn /\ manager # ManagerError) =>
              /\ resolved.err = "nil"
              /\ resolved.info # NoServiceInfo
              /\ resolved.info.Unit \in {manager.id, manager.unitPath}
              /\ resolved.info.Status # FallbackStatus
              /\ resolved.examined = <<>>

\* the manager named a unit for a PID whose own command name is in the
\* catalogue, and the call returned the manager's unit
C19_Witness ==
    /\ Resolved /\ conn /\ manager # ManagerError
    /\ resolved.pid > 1
    /\ getServiceNameFromComm(proc, resolved.pid) # <<>>
    /\ ~resolved.tier2

\* C20: when tier 2 matches a command name against the catalogue, the
\* ServiceInfo has Status "unknown (fallback)" and Unit equal to the matched
\* catalogue name followed by ".service", also when the command name merely
\* contains the catalogue name.
C20_UnitIsCatalogueName ==
    (Resolved /\ resolved.tier2 /\ resolved.err = "nil") =>
        /\ resolved.info.Status = FallbackStatus
        /\ \E k \in MatchedNames(TrimSpace(proc[resolved.info.MainPID].comm)) :
              resolved.info.Unit = serviceNames[k] \o DotService

\* C21: ResolveService surfaces no tier-1 failure.  Whenever tier 2 resolves
\* the PID the call succeeds, however tier 1 failed (no connection, or the
\* manager query failed); when neither tier resolves, the call returns the
\* not-found error naming the PID passed in, never an ancestor's PID and never
\* the tier-1 error.
C21_NotFoundNamesArgument ==
    Resolved =>
        LET t2 == resolveFromProcessTree(proc, resolved.pid) IN
        /\ resolved.err \in {"nil", "could not resolve PID"}
        /\ (resolved.tier2 /\ t2.err = "nil") =>
              /\ resolved.err = "nil"
              /\ resolved.info = t2.info
        /\ (resolved.tier2 /\ t2.err # "nil") =>
              /\ resolved.err = "could not resolve PID"
              /\ resolved.errPID = resolved.pid
              /\ resolved.info = NoServiceInfo
        /\ resolved.err # "nil" => resolved.tier2

\* the manager query failed over a live connection, the walk climbed to an
\* ancestor and ended there unresolved, and the error names the argument
C21_Witness ==
    /\ Resolved /\ conn /\ manager = ManagerError
    /\ Len(resolved.examined) >= 2
    /\ resolved.examined[Len(resolved.examined)] # resolved.pid
    /\ resolved.err = "could not resolve PID"
    /\ resolved.errPID = resolved.pid

\* the command name of p, as the process table shows it, contains a
\* catalogue name
CommMatches(p) ==
    /\ p \in DOMAIN proc
    /\ proc[p].comm # Unreadable
    /\ MatchedNames(TrimSpace(proc[p].comm)) # {}

\* C30: tier 2 examines the process itself, then its parent, then each further
\* ancestor in order toward the root process, and stops at the first (nearest)
\* one whose command name matches the catalogue, reporting that ancestor's
\* PID as MainPID.  The walk ends for every acyclic parent relation, a failed
\* parent lookup ends it as not-resolved and not as another kind of error, and
\* PID 1 and PIDs <= 0 are never examined.
C30_NearestAncestorFirst ==
    (Resolved /\ resolved.tier2) =>
        LET ex == resolved.examined
            n == Len(ex)
        IN  /\ \A i \in 1..n : ex[i] = Climb(proc, resolved.pid, i - 1)
            /\ \A i \in 1..n : ex[i] > 1
            /\ \A i \in 1..(n - 1) : ~CommMatches(ex[i])
            /\ n = 0 <=> resolved.pid <= 1
            /\ resolved.err = "nil" =>
                  /\ n >= 1
                  /\ CommMatches(ex[n])
                  /\ resolved.info.MainPID = ex[n]
            /\ resolved.err # "nil" =>
                  /\ resolved.err = "could not resolve PID"
                  /\ n >= 1 => /\ ~CommMatches(ex[n])
                              /\ Climb(proc, resolved.pid, n) <= 1

\* the walk passed the process itself, whose command name does not match,
\* and stopped at its parent, whose command name does
C30_Witness ==
    /\ Resolved /\ resolved.tier2
    /\ Len(resolved.examined) >= 2
    /\ resolved.err = "nil"
    /\ resolved.info.MainPID = resolved.examined[Len(resolved.examined)]
    /\ resolved.info.MainPID # resolved.pid

\* ------------------------------------------------------ action.Killer: state
InitKiller ==
    /\ target \in [alive : BOOLEAN, permitted : BOOLEAN]
    /\ killer \in { [KillerNotCalled EXCEPT !.timeout = t] : t \in 0..MaxTimeout }
    /\ poller = PollerOff
    /\ done = 0
    /\ timerC = 0
    /\ now = 0
    /\ sigLog = <<>>
    /\ sendCall = NoSendSignal

Sent(sig, outcome, by) == [sig |-> sig, outcome |-> outcome, by |-> by]

KillReturns(result) == [killer EXCEPT !.pc = "returned", !.result = result]

\* the timeout case of Kill's select has become ready or has been taken
TimeoutReached ==
    \/ timerC = 1
    \/ killer.woken = "timer"
    \/ killer.pc \in {"force", "grace"}
    \/ \E i \in DOMAIN sigLog : sigLog[i].sig = "SIGKILL"

GraceDeadlineTwice(forceAt) == forceAt + 2 * KillGrace

\* when time.Sleep(500 * time.Millisecond), begun at forceAt, is over
GraceDeadline(forceAt) == forceAt + KillGrace

\* the timeout case of Kill's select has been taken
TimeoutTaken ==
    \/ killer.woken = "timer"
    \/ killer.pc \in {"force", "grace"}
    \/ \E i \in DOMAIN sigLog : sigLog[i].sig = "SIGKILL"

\* k.Kill(pid) is called: os.FindProcess, which cannot fail here
Kill ==
    /\ killer.pc = "idle"
    /\ killer' = [killer EXCEPT !.pc = "term"]
    /\ UNCHANGED <<target, poller, done, timerC, now, sigLog, sendCall>>
    /\ UNCHANGED <<diffVars, resolverVars, scannerVars, restVars>>

\* proc.Signal(syscall.SIGTERM) and the handling of its error
SendTerm ==
    /\ killer.pc = "term"
    /\ LET outcome == SignalOutcome(target) IN
          /\ sigLog' = Append(sigLog, Sent("SIGTERM", outcome, "Kill"))
          /\ killer' = IF outcome = "ok"
                       THEN [killer EXCEPT !.pc = "spawn", !.termAt = now]
                       ELSE KillReturns(KillTermReturn(outcome))
    /\ UNCHANGED <<target, poller, done, timerC, now, sendCall>>
    /\ UNCHANGED <<diffVars, resolverVars, scannerVars, restVars>>

\* done := make(chan bool, 1); go func() { ... }()
Spawn ==
    /\ killer.pc = "spawn"
    /\ killer' = [killer EXCEPT !.pc = "arm"]
    /\ poller' = [poller EXCEPT !.pc = "probe"]
    /\ UNCHANGED <<target, done, timerC, now, sigLog, sendCall>>
    /\ UNCHANGED <<diffVars, resolverVars, scannerVars, restVars>>

\* time.After(k.Timeout) is evaluated
ArmTimer ==
    /\ killer.pc = "arm"
    /\ killer' = [killer EXCEPT !.pc = "armed", !.timerAt = now + killer.timeout]
    /\ UNCHANGED <<target, poller, done, timerC, now, sigLog, sendCall>>
    /\ UNCHANGED <<diffVars, resolverVars, scannerVars, restVars>>

\* the runtime delivers the expired timer on its channel; a Kill blocked in
\* the select with nothing chosen yet is woken by it
TimerFires ==
    /\ killer.pc \in {"armed", "blocked"}
    /\ timerC = 0
    /\ killer.woken = "none"
    /\ TimerDue(killer.timerAt, now)
    /\ timerC' = 1
    /\ killer' = IF killer.pc = "blocked"
                 THEN [killer EXCEPT !.woken = "timer"] ELSE killer
    /\ UNCHANGED <<target, poller, done, now, sigLog, sendCall>>
    /\ UNCHANGED <<diffVars, resolverVars, scannerVars, restVars>>

\* the select statement is reached: one of the ready cases is chosen, or
\* Kill blocks until the first of them becomes ready
EnterSelect ==
    /\ killer.pc = "armed"
    /\ LET ready == {c \in {"done"} : done = 1} \cup {c \in {"timer"} : timerC = 1}
       IN  IF ready = {}
           THEN killer' = [killer EXCEPT !.pc = "blocked"]
           ELSE \E c \in ready : killer' = [killer EXCEPT !.pc = "blocked", !.woken = c]
    /\ UNCHANGED <<target, poller, done, timerC, now, sigLog, sendCall>>
    /\ UNCHANGED <<diffVars, resolverVars, scannerVars, restVars>>

\* case <-done: return nil
SelectDone ==
    /\ killer.pc = "blocked"
    /\ killer.woken = "done"
    /\ done' = 0
    /\ killer' = KillReturns("nil")
    /\ UNCHANGED <<target, poller, timerC, now, sigLog, sendCall>>
    /\ UNCHANGED <<diffVars, resolverVars, scannerVars, restVars>>

\* case <-time.After(k.Timeout):
SelectTimeout ==
    /\ killer.pc = "blocked"
    /\ killer.woken = "timer"
    /\ timerC' = 0
    /\ killer' = [killer EXCEPT !.pc = "force"]
    /\ UNCHANGED <<target, poller, done, now, sigLog, sendCall>>
    /\ UNCHANGED <<diffVars, resolverVars, scannerVars, restVars>>

\* proc.Signal(syscall.SIGKILL) and the handling of its error
SendForce ==
    /\ killer.pc = "force"
    /\ LET outcome == SignalOutcome(target) IN
          /\ sigLog' = Append(sigLog, Sent("SIGKILL", outcome, "Kill"))
          /\ killer' = IF outcome = "ok"
                       THEN [killer EXCEPT !.pc = "grace", !.forceAt = now,
                                           !.graceAt = GraceDeadline(now)]
                       ELSE [KillReturns(KillForceReturn(outcome))
                                EXCEPT !.forceAt = now]
    /\ UNCHANGED <<target, poller, done, timerC, now, sendCall>>
    /\ UNCHANGED <<diffVars, resolverVars, scannerVars, restVars>>

\* after time.Sleep(500 * time.Millisecond): the final processExists
FinalCheck ==
    /\ killer.pc = "grace"
    /\ TimerDue(killer.graceAt, now)
    /\ killer' = KillReturns(IF processExists(target)
                             THEN "still running after SIGKILL" ELSE "nil")
    /\ UNCHANGED <<target, poller, done, timerC, now, sigLog, sendCall>>
    /\ UNCHANGED <<diffVars, resolverVars, scannerVars, restVars>>

\* the poll goroutine's processExists: on absence it sends on done and
\* exits, waking a Kill blocked in the select with nothing chosen yet
PollProbe ==
    /\ poller.pc = "probe"
    /\ IF processExists(target)
       THEN /\ poller' = [poller EXCEPT !.pc = "sleep", !.wakeAt = now + PollSleep]
            /\ UNCHANGED <<done, killer>>
       ELSE /\ poller' = [poller EXCEPT !.pc = "exited",
                             !.absent = IF TimeoutTaken THEN "after timeout"
                                        ELSE IF TimeoutReached THEN "timeout pending"
                                        ELSE "before timeout"]
            /\ done' = 1
            /\ killer' = IF killer.pc = "blocked" /\ killer.woken = "none"
                         THEN [killer EXCEPT !.woken = "done"] ELSE killer
    /\ UNCHANGED <<target, timerC, now, sigLog, sendCall>>
    /\ UNCHANGED <<diffVars, resolverVars, scannerVars, restVars>>

\* the poll goroutine's time.Sleep(100 * time.Millisecond) is over
PollWake ==
    /\ poller.pc = "sleep"
    /\ TimerDue(poller.wakeAt, now)
    /\ poller' = [poller EXCEPT !.pc = "probe"]
    /\ UNCHANGED <<target, killer, done, timerC, now, sigLog, sendCall>>
    /\ UNCHANGED <<diffVars, resolverVars, scannerVars, restVars>>

\* k.SendSignal(pid, sig)
SendSignal ==
    /\ sendCall.n < MaxSends
    /\ \E sig \in Signals :
          LET outcome == SignalOutcome(target) IN
          /\ sigLog' = Append(sigLog, Sent(sig, outcome, "SendSignal"))
          /\ sendCall' = [n |-> sendCall.n + 1, sig |-> sig,
                          err |-> SendSignalReturn(outcome)]
    /\ UNCHANGED <<target, killer, poller, done, timerC, now>>
    /\ UNCHANGED <<diffVars, resolverVars, scannerVars, restVars>>

\* the target process exits (on a signal or by itself)
ProcessExits ==
    /\ target.alive
    /\ target' = [target EXCEPT !.alive = FALSE]
    /\ UNCHANGED <<killer, poller, done, timerC, now, sigLog, sendCall>>
    /\ UNCHANGED <<diffVars, resolverVars, scannerVars, restVars>>

\* 100 ms pass while Kill or its poll goroutine is running
Tick ==
    /\ now < MaxClock
    /\ killer.pc # "idle"
    /\ ~(killer.pc = "returned" /\ poller.pc \in {"off", "exited"})
    /\ now' = now + 1
    /\ UNCHANGED <<target, killer, poller, done, timerC, sigLog, sendCall>>
    /\ UNCHANGED <<diffVars, resolverVars, scannerVars, restVars>>

InitKill == InitKiller /\ DiffIdle /\ ResolverIdle /\ ScannerIdle /\ RestIdle

NextKill ==
    \/ Kill \/ SendTerm \/ Spawn \/ ArmTimer \/ TimerFires \/ EnterSelect
    \/ SelectDone \/ SelectTimeout \/ SendForce \/ FinalCheck
    \/ PollProbe \/ PollWake \/ ProcessExits \/ Tick

SpecKill == InitKill /\ [][NextKill]_vars

NextSignal == SendSignal \/ ProcessExits

SpecSignal == InitKill /\ [][NextSignal]_vars

\* Kill has returned
KillReturned == killer.pc = "returned"

\* the positions in the signal log of Kill's sends of sig
KillSent(sig) ==
    { i \in DOMAIN sigLog : sigLog[i].by = "Kill" /\ sigLog[i].sig = sig }

\* C15: in Kill, "process not found" at any point is success: when the
\* graceful signal reported the process already gone, or a liveness probe
\* found it absent before the timeout, or the force-kill signal reported no
\* such process, Kill returns nil.
C15_NotFoundIsSuccess ==
    (/\ KillReturned
     /\ \/ \E i \in KillSent("SIGTERM") : sigLog[i].outcome = "done"
        \/ poller.absent = "before timeout"
        \/ \E i \in KillSent("SIGKILL") : sigLog[i].outcome = "done")
    => killer.result = "nil"

\* the process outlived the timeout unnoticed and was gone when SIGKILL
\* was sent
C15_Witness ==
    /\ KillReturned
    /\ \E i \in KillSent("SIGKILL") : sigLog[i].outcome = "done"
    /\ poller.absent = "no"
    /\ killer.result = "nil"

\* C16: Kill sends at most one force-kill signal, none before the timeout
\* has elapsed since the graceful signal, and exactly one when the process
\* is still alive after the graceful signal was delivered and Kill has
\* returned.
C16_OneForceKillAfterTimeout ==
    /\ Cardinality(KillSent("SIGKILL")) <= 1
    /\ KillSent("SIGKILL") # {} => killer.forceAt >= killer.termAt + killer.timeout
    /\ (/\ KillReturned
        /\ target.alive
        /\ \E i \in KillSent("SIGTERM") : sigLog[i].outcome = "ok")
       => Cardinality(KillSent("SIGKILL")) = 1

\* a process that ignored both signals, with a timeout that is not zero
C16_Witness ==
    /\ KillReturned
    /\ target.alive
    /\ killer.timeout > 0
    /\ Cardinality(KillSent("SIGKILL")) = 1
    /\ killer.result = "still running after SIGKILL"

\* C26: in the Kill state machine the force-kill signal is sent only from the
\* waiting-graceful state on timeout: it is never sent unless the graceful
\* signal was sent successfully first, and if a liveness probe finds the
\* process absent before the timeout is taken, Kill returns success without
\* ever sending the force-kill signal.
C26_ForceKillOnlyOnTimeout ==
    /\ \A i \in KillSent("SIGKILL") :
          \E j \in KillSent("SIGTERM") : j < i /\ sigLog[j].outcome = "ok"
    /\ poller.absent \in {"before timeout", "timeout pending"} =>
          /\ KillSent("SIGKILL") = {}
          /\ KillReturned => killer.result = "nil"

\* C17: the only failure outcome of Kill is the fatal one: Kill returns an
\* error if and only if the final liveness check, made one grace period after
\* the force-kill signal was sent, finds the process alive; whatever the
\* outcome of sending SIGTERM or SIGKILL, every other path ends in success.
C17_OnlyFatalFailure ==
    KillReturned =>
        (killer.result # "nil" <=>
            /\ killer.result = "still running after SIGKILL"
            /\ \E i \in KillSent("SIGKILL") : sigLog[i].outcome = "ok"
            /\ now >= killer.forceAt + KillGrace)

\* C18: SendSignal is a non-escalating pass-through: every call adds exactly
\* the one requested signal to the signals sent, starts no liveness polling,
\* sends no SIGTERM or SIGKILL after it, and returns an error exactly when
\* that one delivery failed.
C18_SendSignalPassThrough ==
    /\ Len(sigLog) = sendCall.n
    /\ \A i \in DOMAIN sigLog :
          sigLog[i].by = "SendSignal" /\ sigLog[i].sig \in Signals
    /\ sendCall.n > 0 =>
          /\ sigLog[Len(sigLog)].sig = sendCall.sig
          /\ sendCall.err # "nil" <=> sigLog[Len(sigLog)].outcome # "ok"
    /\ poller = PollerOff
    /\ done = 0
    /\ killer.pc = "idle"

\* a signal was delivered, then the process exited and the next call failed
C18_Witness ==
    /\ sendCall.n >= 2
    /\ sigLog[1].outcome = "ok"
    /\ sigLog[Len(sigLog)].outcome = "done"
    /\ sendCall.err # "nil"

\* ------------------------------------------------- Scanner.TakeSnapshot
\* the configurations scanned: the whole tree, or its deepest directory
\* listed twice
RootLists == { <<1>>, <<6, 6>> }

Configs ==
    [Paths : RootLists, WorkerCount : 1..MaxWorkers, MaxDepth : {-1, 0, 1},
     FollowSymlinks : {FALSE},
     ExcludePatterns : {<<>>, <<StarGz>>, <<<<"s", "u", "b">>>>},
     Interval : {0}, ThresholdBytes : {0}]

InitScanner == config \in Configs /\ ScannerNotStarted

\* a walkDirectory frame: the entries its loop has still to visit
Frame(rest, depth) == [rest |-> rest, depth |-> depth]

\* returns from every walkDirectory call (and the roots loop) whose loop is over
RECURSIVE Unwind(_)
Unwind(stack) ==
    IF stack # <<>> /\ Head(stack).rest = <<>> THEN Unwind(Tail(stack)) ELSE stack

\* the innermost loop moves on to its next entry
NextEntry(stack) ==
    <<[Head(stack) EXCEPT !.rest = Tail(@)]>> \o Tail(stack)

\* the loop variable of the innermost loop
Entry == Head(Head(producer.stack).rest)

\* walkDirectory(ctx, n, fileChan, depth) gets as far as os.ReadDir
ReadsDir(n, depth) == ~TooDeep(config, depth) /\ ~cancelled

\* the producer's stack after the call walkDirectory(ctx, n, fileChan, depth)
\* has started, readOK telling whether os.ReadDir succeeded
walkDirectory(stack, n, depth, readOK) ==
    IF ReadsDir(n, depth) /\ readOK
    THEN Unwind(<<Frame(Tree[n].children, depth)>> \o NextEntry(stack))
    ELSE Unwind(NextEntry(stack))

\* the history after that call
Read(n, depth, readOK) ==
    IF ~ReadsDir(n, depth) THEN hist
    ELSE IF readOK THEN [hist EXCEPT !.readOK = @ \cup {n}]
    ELSE [hist EXCEPT !.readFailed = @ \cup {n}]

\* os.ReadDir can succeed on directories only
ReadOutcomes(n, depth) ==
    IF ReadsDir(n, depth) /\ Tree[n].kind = "dir" THEN BOOLEAN ELSE {FALSE}

\* the statements of TakeSnapshot up to its collecting loop: the snapshot,
\* the channels, the workers, the producer and the closer are created
StartSnapshot(timestamp) ==
    /\ snapshot' = [EmptySnapshot EXCEPT !.Timestamp = timestamp]
    /\ fileChan' = OpenChan
    /\ resultChan' = OpenChan
    /\ workers' = [i \in 1..config.WorkerCount |-> [pc |-> "recv", info |-> ZeroFileInfo]]
    /\ producer' = [pc |-> "run", stack |-> Unwind(<<Frame(config.Paths, -1)>>)]
    /\ closer' = "wait"
    /\ take' = [pc |-> "collect", err |-> "none"]
    /\ hist' = NoHistory

\* s.TakeSnapshot(ctx) is called
TakeSnapshot ==
    /\ take.pc = "idle"
    /\ scan.pc = "off"
    /\ StartSnapshot(1)
    /\ UNCHANGED <<config, cancelled, scan>>
    /\ UNCHANGED <<diffVars, resolverVars, killerVars, restVars>>

\* the producer's loop over config.Paths: leave on cancellation, else walk
ProducerRoot ==
    /\ producer.pc = "run"
    /\ Len(producer.stack) = 1
    /\ IF cancelled
       THEN producer' = [producer EXCEPT !.stack = <<>>] /\ hist' = hist
       ELSE \E readOK \in ReadOutcomes(Entry, 0) :
               /\ producer' = [producer EXCEPT
                                  !.stack = walkDirectory(@, Entry, 0, readOK)]
               /\ hist' = Read(Entry, 0, readOK)
    /\ UNCHANGED <<config, cancelled, fileChan, workers, resultChan, closer,
                   snapshot, take, scan>>
    /\ UNCHANGED <<diffVars, resolverVars, killerVars, restVars>>

\* walkDirectory's loop passes over a symlink or an excluded name
ProducerSkip ==
    /\ producer.pc = "run"
    /\ Len(producer.stack) > 1
    /\ Skipped(config, Entry)
    /\ producer' = [producer EXCEPT !.stack = Unwind(NextEntry(@))]
    /\ UNCHANGED <<config, cancelled, fileChan, workers, resultChan, closer,
                   snapshot, take, hist, scan>>
    /\ UNCHANGED <<diffVars, resolverVars, killerVars, restVars>>

\* walkDirectory's loop recurses into a directory entry
ProducerDescend ==
    /\ producer.pc = "run"
    /\ Len(producer.stack) > 1
    /\ ~Skipped(config, Entry)
    /\ Tree[Entry].kind = "dir"
    /\ LET depth == Head(producer.stack).depth + 1 IN
       \E readOK \in ReadOutcomes(Entry, depth) :
          /\ producer' = [producer EXCEPT
                             !.stack = walkDirectory(@, Entry, depth, readOK)]
          /\ hist' = Read(Entry, depth, readOK)
    /\ UNCHANGED <<config, cancelled, fileChan, workers, resultChan, closer,
                   snapshot, take, scan>>
    /\ UNCHANGED <<diffVars, resolverVars, killerVars, restVars>>

\* case fileChan <- fullPath
ProducerSend ==
    /\ producer.pc = "run"
    /\ Len(producer.stack) > 1
    /\ ~Skipped(config, Entry)
    /\ Tree[Entry].kind # "dir"
    /\ Len(fileChan.buf) < ChanCap
    /\ fileChan' = [fileChan EXCEPT !.buf = Append(@, Entry)]
    /\ producer' = [producer EXCEPT !.stack = Unwind(NextEntry(@))]
    /\ hist' = [hist EXCEPT !.enqueued = @ \cup {Entry}]
    /\ UNCHANGED <<config, cancelled, workers, resultChan, closer, snapshot,
                   take, scan>>
    /\ UNCHANGED <<diffVars, resolverVars, killerVars, restVars>>

\* case <-ctx.Done(): return, out of the innermost walkDirectory call
ProducerCancelled ==
    /\ producer.pc = "run"
    /\ Len(producer.stack) > 1
    /\ ~Skipped(config, Entry)
    /\ Tree[Entry].kind # "dir"
    /\ cancelled
    /\ producer' = [producer EXCEPT !.stack = Unwind(Tail(@))]
    /\ UNCHANGED <<config, cancelled, fileChan, workers, resultChan, closer,
                   snapshot, take, hist, scan>>
    /\ UNCHANGED <<diffVars, resolverVars, killerVars, restVars>>

\* defer close(fileChan)
ProducerClose ==
    /\ producer.pc = "run"
    /\ producer.stack = <<>>
    /\ producer' = [producer EXCEPT !.pc = "done"]
    /\ fileChan' = [fileChan EXCEPT !.closed = TRUE]
    /\ UNCHANGED <<config, cancelled, workers, resultChan, closer, snapshot,
                   take, hist, scan>>
    /\ UNCHANGED <<diffVars, resolverVars, killerVars, restVars>>

\* the worker's loop ends in "return" at a stat error instead of "continue"
AfterStatErrorReturn == "exited"

\* where a worker goes after a stat error: "continue", to the next receive
AfterStatError == "recv"

AggregatorDrainsUntilCancelled == ~cancelled

\* the collecting loop "for info := range resultChan" keeps receiving
\* whether or not the context is cancelled
AggregatorDrains == TRUE

\* a worker receives a path from fileChan; on cancellation it returns, else
\* it stats the path and either has a FileInfo to send or skips the path
WorkerRecv(i) ==
    /\ workers[i].pc = "recv"
    /\ fileChan.buf # <<>>
    /\ fileChan' = [fileChan EXCEPT !.buf = Tail(@)]
    /\ LET path == Head(fileChan.buf) IN
       IF cancelled
       THEN workers' = [workers EXCEPT ![i].pc = "exited"] /\ hist' = hist
       ELSE \/ /\ workers' = [workers EXCEPT ![i] = [pc |-> "send",
                                                        info |-> statFile(path)]]
               /\ hist' = [hist EXCEPT !.statOK = @ \cup {path}]
            \/ /\ workers' = [workers EXCEPT ![i].pc = AfterStatError]
               /\ hist' = [hist EXCEPT !.statFailed = @ \cup {path}]
    /\ UNCHANGED <<config, cancelled, producer, resultChan, closer, snapshot,
                   take, scan>>
    /\ UNCHANGED <<diffVars, resolverVars, killerVars, restVars>>

\* resultChan <- info
WorkerSend(i) ==
    /\ workers[i].pc = "send"
    /\ Len(resultChan.buf) < ChanCap
    /\ resultChan' = [resultChan EXCEPT !.buf = Append(@, workers[i].info)]
    /\ workers' = [workers EXCEPT ![i] = [pc |-> "recv", info |-> ZeroFileInfo]]
    /\ UNCHANGED <<config, cancelled, producer, fileChan, closer, snapshot,
                   take, hist, scan>>
    /\ UNCHANGED <<diffVars, resolverVars, killerVars, restVars>>

\* "for path := range fileChan" ends: fileChan is closed and drained
WorkerExit(i) ==
    /\ workers[i].pc = "recv"
    /\ fileChan.buf = <<>>
    /\ fileChan.closed
    /\ workers' = [workers EXCEPT ![i].pc = "exited"]
    /\ UNCHANGED <<config, cancelled, producer, fileChan, resultChan, closer,
                   snapshot, take, hist, scan>>
    /\ UNCHANGED <<diffVars, resolverVars, killerVars, restVars>>

WaitGroupDoneAtFirstExit == \E i \in DOMAIN workers : workers[i].pc = "exited"

\* wg.Wait() returns: every worker has run its deferred wg.Done()
WaitGroupDone == \A i \in DOMAIN workers : workers[i].pc = "exited"

\* wg.Wait(); close(resultChan)
CloseResults ==
    /\ closer = "wait"
    /\ WaitGroupDone
    /\ closer' = "done"
    /\ resultChan' = [resultChan EXCEPT !.closed = TRUE]
    /\ UNCHANGED <<config, cancelled, producer, fileChan, workers, snapshot,
                   take, hist, scan>>
    /\ UNCHANGED <<diffVars, resolverVars, killerVars, restVars>>

\* snapshot.Files[info.Path] = info, by map assignment
MapAssign(files, info) ==
    [p \in DOMAIN files \cup {info.Path} |->
        IF p = info.Path THEN info ELSE files[p]]

\* one iteration of "for info := range resultChan"
Collect ==
    /\ take.pc = "collect"
    /\ AggregatorDrains
    /\ resultChan.buf # <<>>
    /\ LET info == Head(resultChan.buf) IN
       snapshot' = [snapshot EXCEPT
                       !.Files = MapAssign(@, info),
                       !.TotalSize = IF info.IsDir THEN @ ELSE @ + info.Size,
                       !.FileCount = IF info.IsDir THEN @ ELSE @ + 1]
    /\ resultChan' = [resultChan EXCEPT !.buf = Tail(@)]
    /\ UNCHANGED <<config, cancelled, producer, fileChan, workers, closer,
                   take, hist, scan>>
    /\ UNCHANGED <<diffVars, resolverVars, killerVars, restVars>>

\* the range loop ends, errChan is empty: return snapshot, nil
ReturnSnapshot ==
    /\ take.pc = "collect"
    /\ resultChan.buf = <<>>
    /\ resultChan.closed
    /\ take' = [pc |-> "returned", err |-> "nil"]
    /\ UNCHANGED <<config, cancelled, producer, fileChan, workers, resultChan,
                   closer, snapshot, hist, scan>>
    /\ UNCHANGED <<diffVars, resolverVars, killerVars, restVars>>

ScanWaitUncancelable(ready) == ready \ {"done"}

\* the cases of Scan's select that can be chosen among the ready ones
ScanWait(ready) == ready

\* the producer is at a send and the path queue is full
ProducerBlocked ==
    /\ producer.pc = "run"
    /\ Len(producer.stack) > 1
    /\ ~Skipped(config, Entry)
    /\ Tree[Entry].kind # "dir"
    /\ Len(fileChan.buf) >= ChanCap

\* some worker is at its send and the result queue is full
WorkerBlocked ==
    /\ Len(resultChan.buf) >= ChanCap
    /\ \E i \in DOMAIN workers : workers[i].pc = "send"

\* the caller cancels the context
Cancel ==
    /\ ~cancelled
    /\ take.pc # "returned" \/ scan.pc \notin {"off", "returned"}
    /\ cancelled' = TRUE
    /\ scan' = IF scan.pc = "wait" /\ scan.woken = "none"
               THEN [scan EXCEPT
                        !.woken = IF ScanWait({"done"}) = {} THEN @ ELSE "done",
                        !.cancelledInWait = TRUE]
               ELSE scan
    /\ hist' = [hist EXCEPT !.cancelAt =
                   IF take.pc # "collect" THEN "outside"
                   ELSE IF ProducerBlocked /\ WorkerBlocked THEN "all blocked"
                   ELSE IF ProducerBlocked THEN "producer blocked"
                   ELSE IF WorkerBlocked THEN "worker blocked"
                   ELSE "running"]
    /\ UNCHANGED <<config, producer, fileChan, workers, resultChan, closer,
                   snapshot, take>>
    /\ UNCHANGED <<diffVars, resolverVars, killerVars, restVars>>

InitSnapshot == InitScanner /\ DiffIdle /\ ResolverIdle /\ KillerIdle /\ RestIdle

\* the steps of worker i
Worker(i) ==
    /\ i \in DOMAIN workers
    /\ (WorkerRecv(i) \/ WorkerSend(i) \/ WorkerExit(i))

Workers == \E i \in 1..MaxWorkers : Worker(i)

Producer ==
    \/ ProducerRoot \/ ProducerSkip \/ ProducerDescend \/ ProducerSend
    \/ ProducerCancelled \/ ProducerClose

NextSnapshot ==
    \/ TakeSnapshot \/ Producer \/ Workers \/ CloseResults \/ Collect
    \/ ReturnSnapshot \/ Cancel

SpecSnapshot == InitSnapshot /\ [][NextSnapshot]_vars

\* the Go scheduler runs every goroutine that can take a step: the producer,
\* each worker, the closer and TakeSnapshot's own collecting loop
SnapshotFairness ==
    /\ WF_vars(Producer)
    /\ \A i \in 1..MaxWorkers : WF_vars(Worker(i))
    /\ WF_vars(CloseResults)
    /\ WF_vars(Collect \/ ReturnSnapshot)

SpecSnapshotFair == SpecSnapshot /\ SnapshotFairness

\* strings.HasSuffix
HasSuffix(str, suffix) ==
    /\ Len(str) >= Len(suffix)
    /\ SubSeq(str, Len(str) - Len(suffix) + 1, Len(str)) = suffix

\* filepath.Base of a path that does not end in a separator
RECURSIVE Base(_)
Base(path) ==
    IF \E i \in DOMAIN path : path[i] = "/"
    THEN Base(Tail(path)) ELSE path

DotGz == <<".", "g", "z">>

\* TakeSnapshot has returned
SnapshotReturned == take.pc = "returned"

\* C11: with the exclude pattern *.gz configured, no path whose base name
\* ends in .gz is a key of the snapshot, at any moment of any TakeSnapshot.
C11_NoGzInSnapshot ==
    (\E k \in DOMAIN config.ExcludePatterns : config.ExcludePatterns[k] = StarGz)
    => \A p \in DOMAIN snapshot.Files : ~HasSuffix(Base(FullPath(p)), DotGz)

\* the whole tree was walked with *.gz excluded: both directories holding a
\* .gz file were listed and the other files are in the snapshot
C11_Witness ==
    /\ SnapshotReturned
    /\ config.ExcludePatterns = <<StarGz>>
    /\ {1, 3} \subseteq hist.readOK
    /\ DOMAIN snapshot.Files = {5, 8}

\* the producer, every worker and the closer have terminated and
\* TakeSnapshot has returned
AllTerminated ==
    /\ SnapshotReturned
    /\ producer.pc = "done"
    /\ \A i \in DOMAIN workers : workers[i].pc = "exited"
    /\ closer = "done"

\* C12: once the context is cancelled during a TakeSnapshot, wherever the
\* producer, the workers and the collecting loop are at that moment,
\* TakeSnapshot eventually returns and the producer, every worker and the
\* closer eventually terminate.
C12_CancelTerminates == (cancelled /\ take.pc = "collect") ~> AllTerminated

\* the cancellation came while the producer was blocked on the full path
\* queue and a worker on the full result queue, and all has terminated
C12_Witness ==
    /\ AllTerminated
    /\ cancelled
    /\ hist.cancelAt = "all blocked"

\* the directory levels between node n and the configured root above it
RECURSIVE DepthBelowRoot(_)
DepthBelowRoot(n) ==
    IF Tree[n].parent = 0 \/ \E k \in DOMAIN config.Paths : config.Paths[k] = n
    THEN 0 ELSE 1 + DepthBelowRoot(Tree[n].parent)

\* the entries of successfully listed directories that the walk does not skip
Listed == { n \in Nodes : Tree[n].parent \in hist.readOK /\ ~Skipped(config, n) }

\* C13: per-path failures are never fatal: TakeSnapshot returns no error,
\* and when it returns without cancellation every root and every listed
\* directory within the depth limit was read or failed to be read, every
\* listed non-directory entry was enqueued and statted, and Snapshot.Files
\* holds exactly the enqueued paths whose stat succeeded.
C13_PartialNeverFatal ==
    SnapshotReturned =>
        /\ take.err = "nil"
        /\ ~cancelled =>
              /\ \A k \in DOMAIN config.Paths :
                    config.Paths[k] \in hist.readOK \cup hist.readFailed
              /\ \A n \in Listed :
                    (Tree[n].kind = "dir" /\ ~TooDeep(config, DepthBelowRoot(n)))
                    => n \in hist.readOK \cup hist.readFailed
              /\ hist.enqueued = { n \in Listed : Tree[n].kind # "dir" }
              /\ hist.statOK \cup hist.statFailed = hist.enqueued
              /\ DOMAIN snapshot.Files = hist.statOK

\* a stat failed, a directory could not be read, and the rest was recorded
C13_Witness ==
    /\ SnapshotReturned
    /\ ~cancelled
    /\ hist.statFailed # {}
    /\ hist.readFailed # {}
    /\ hist.statOK \ hist.statFailed # {}
    /\ DOMAIN snapshot.Files = hist.statOK

\* C27: TakeSnapshot never panics on a channel: the path queue is closed
\* exactly once, by the producer and only after its last send; the result
\* queue is closed exactly once and only after every worker has exited, so no
\* worker ever sends on a closed result queue, with or without cancellation
\* and for every interleaving.
C27_ChannelsClosedOnce ==
    [][/\ (~fileChan.closed /\ fileChan'.closed) =>
             /\ producer.pc = "run" /\ producer.stack = <<>>
             /\ producer'.pc = "done"
       /\ fileChan.closed =>
             /\ fileChan'.closed
             /\ Len(fileChan'.buf) <= Len(fileChan.buf)
             /\ producer'.pc = "done"
       /\ (~resultChan.closed /\ resultChan'.closed) =>
             /\ closer = "wait" /\ closer' = "done"
             /\ \A i \in DOMAIN workers : workers[i].pc = "exited"
       /\ resultChan.closed =>
             /\ resultChan'.closed
             /\ Len(resultChan'.buf) <= Len(resultChan.buf)
             /\ closer' = "done"
             /\ \A i \in DOMAIN workers' : workers'[i].pc = "exited"
       /\ take'.pc = "returned" => resultChan'.closed]_vars

\* two workers, the context cancelled while one of them was blocked on the
\* full result queue, and both queues closed in the end
C27_Witness ==
    /\ AllTerminated
    /\ fileChan.closed /\ resultChan.closed
    /\ Len(workers) = 2
    /\ hist.cancelAt = "worker blocked"
    /\ hist.statOK # {}

\* C29: the walk is bounded by MaxDepth: counting a root as depth 0 and each
\* nested directory as one deeper, with MaxDepth = N > 0 the producer reads
\* directories at depth 0..N only, so no file lying inside a directory at
\* depth greater than N is ever enqueued or recorded; with MaxDepth <= 0 no
\* depth limit applies.
C29_DepthBounded ==
    /\ config.MaxDepth > 0 =>
          /\ \A n \in hist.readOK \cup hist.readFailed :
                DepthBelowRoot(n) <= config.MaxDepth
          /\ \A n \in hist.enqueued \cup DOMAIN snapshot.Files :
                DepthBelowRoot(Tree[n].parent) <= config.MaxDepth
    /\ (config.MaxDepth <= 0 /\ SnapshotReturned /\ ~cancelled) =>
          \A n \in Listed :
             Tree[n].kind = "dir" => n \in hist.readOK \cup hist.readFailed

\* with MaxDepth = 1 the root and the directory below it were read and its
\* file recorded; the directory at depth 2 was not read and its file is missing
C29_Witness ==
    /\ SnapshotReturned /\ ~cancelled
    /\ config.MaxDepth = 1
    /\ config.Paths = <<1>>
    /\ {1, 3} \subseteq hist.readOK
    /\ 6 \notin hist.readOK \cup hist.readFailed
    /\ 5 \in DOMAIN snapshot.Files
    /\ 8 \notin hist.enqueued

\* ---------------------------------------------------------- Scanner.Scan
\* one directory with a subdirectory, scanned without its .gz files, with
\* an interval of zero or of one tick
ScanConfigs ==
    [Paths : {<<3>>}, WorkerCount : 1..MaxWorkers, MaxDepth : {0},
     FollowSymlinks : {FALSE}, ExcludePatterns : {<<StarGz>>},
     Interval : {0, 1}, ThresholdBytes : {0}]

InitScan ==
    /\ config \in ScanConfigs
    /\ ScannerNotStarted
    /\ DiffIdle /\ ResolverIdle /\ KillerIdle /\ RestIdle

\* s.Scan(ctx) is called and starts the first snapshot
Scan ==
    /\ scan.pc = "off"
    /\ take.pc = "idle"
    /\ StartSnapshot(1)
    /\ scan' = [scan EXCEPT !.pc = "snap1", !.snapshots = 1]
    /\ UNCHANGED <<config, cancelled>>
    /\ UNCHANGED <<diffVars, resolverVars, killerVars, restVars>>

\* the first TakeSnapshot has returned; time.After(s.config.Interval)
ScanArmTimer ==
    /\ scan.pc = "snap1"
    /\ take.pc = "returned"
    /\ scan' = [scan EXCEPT !.pc = "armed", !.snap1 = snapshot]
    /\ UNCHANGED <<config, cancelled, producer, fileChan, workers, resultChan,
                   closer, snapshot, take, hist>>
    /\ UNCHANGED <<diffVars, resolverVars, killerVars, restVars>>

\* the interval is over: the runtime delivers on the timer's channel, waking
\* a Scan blocked in the select with nothing chosen yet
ScanTimerFires ==
    /\ scan.pc \in {"armed", "wait"}
    /\ scan.timerC = 0
    /\ scan.woken = "none"
    /\ scan' = [scan EXCEPT !.timerC = 1,
                            !.woken = IF scan.pc = "wait" THEN "timer" ELSE @]
    /\ UNCHANGED <<config, cancelled, producer, fileChan, workers, resultChan,
                   closer, snapshot, take, hist>>
    /\ UNCHANGED <<diffVars, resolverVars, killerVars, restVars>>

\* the select is reached: one of the ready cases is chosen, or Scan blocks
ScanEnterSelect ==
    /\ scan.pc = "armed"
    /\ LET ready == ScanWait({c \in {"done"} : cancelled}
                             \cup {c \in {"timer"} : scan.timerC = 1})
       IN  IF ready = {}
           THEN scan' = [scan EXCEPT !.pc = "wait"]
           ELSE \E c \in ready : scan' = [scan EXCEPT !.pc = "wait", !.woken = c]
    /\ UNCHANGED <<config, cancelled, producer, fileChan, workers, resultChan,
                   closer, snapshot, take, hist>>
    /\ UNCHANGED <<diffVars, resolverVars, killerVars, restVars>>

\* case <-ctx.Done(): return nil, ctx.Err()
ScanCancelled ==
    /\ scan.pc = "wait"
    /\ scan.woken = "done"
    /\ scan' = [scan EXCEPT !.pc = "returned", !.result = NoScanResult,
                            !.err = "context canceled"]
    /\ UNCHANGED <<config, cancelled, producer, fileChan, workers, resultChan,
                   closer, snapshot, take, hist>>
    /\ UNCHANGED <<diffVars, resolverVars, killerVars, restVars>>

\* case <-time.After(s.config.Interval): the second snapshot starts
ScanSecond ==
    /\ scan.pc = "wait"
    /\ scan.woken = "timer"
    /\ StartSnapshot(1 + config.Interval)
    /\ scan' = [scan EXCEPT !.pc = "snap2", !.snapshots = 2, !.timerC = 0]
    /\ UNCHANGED <<config, cancelled>>
    /\ UNCHANGED <<diffVars, resolverVars, killerVars, restVars>>

RECURSIVE SumGrowth(_)
SumGrowth(growing) ==
    IF growing = <<>> THEN 0
    ELSE Head(growing).GrowthBytes + SumGrowth(Tail(growing))

\* the second TakeSnapshot has returned: CalculateGrowth, TotalGrowth, return
ScanReturn ==
    /\ scan.pc = "snap2"
    /\ take.pc = "returned"
    /\ \E order \in IterationOrders(CalculateGrowthKeys(scan.snap1, snapshot)) :
          LET interval == CalculateGrowthInterval(scan.snap1, snapshot)
              growing == SortSlice(CalculateGrowthRange(order, Len(order),
                            scan.snap1, snapshot, config.ThresholdBytes, interval))
          IN  scan' = [scan EXCEPT !.pc = "returned", !.err = "nil",
                          !.result = [Snapshot1 |-> scan.snap1,
                                      Snapshot2 |-> snapshot,
                                      GrowingFiles |-> growing,
                                      TotalGrowth |-> SumGrowth(growing)]]
    /\ UNCHANGED <<config, cancelled, producer, fileChan, workers, resultChan,
                   closer, snapshot, take, hist>>
    /\ UNCHANGED <<diffVars, resolverVars, killerVars, restVars>>

NextScan ==
    \/ Scan \/ ScanArmTimer \/ ScanTimerFires \/ ScanEnterSelect
    \/ ScanCancelled \/ ScanSecond \/ ScanReturn
    \/ Producer \/ Workers \/ CloseResults \/ Collect \/ ReturnSnapshot \/ Cancel

SpecScan == InitScan /\ [][NextScan]_vars

\* C14: the wait between Scan's two snapshots is cancelable: when the
\* context is cancelled while Scan is blocked waiting for the interval, Scan
\* takes no second snapshot and returns the cancellation error and no result.
C14_WaitIsCancelable ==
    scan.cancelledInWait =>
        /\ scan.snapshots = 1
        /\ scan.pc \in {"wait", "returned"}
        /\ scan.pc = "returned" =>
              scan.err = "context canceled" /\ scan.result = NoScanResult

\* Scan was cancelled during a wait of one tick and has returned
C14_Witness ==
    /\ scan.pc = "returned"
    /\ scan.cancelledInWait
    /\ config.Interval = 1
    /\ scan.snap1.Files # <<>>

\* ---------------------------------------------------------- mapper.Mapper
DigitChars == <<"0", "1", "2", "3", "4", "5", "6", "7", "8", "9">>

\* the decimal numeral of n >= 0, as lsof -t prints a PID and as /proc names
\* a process directory
RECURSIVE Decimal(_)
Decimal(n) ==
    IF n < 10 THEN <<DigitChars[n + 1]>>
    ELSE Decimal(n \div 10) \o <<DigitChars[(n % 10) + 1]>>

DigitValue(c) == (CHOOSE k \in DOMAIN DigitChars : DigitChars[k] = c) - 1

IsDigit(c) == \E k \in DOMAIN DigitChars : DigitChars[k] = c

\* strconv.ParseInt(str, 10, 32) of an unsigned numeral: an error for the
\* empty string and for any character that is not a digit
RECURSIVE ParseDigits(_, _)
ParseDigits(str, acc) ==
    IF str = <<>> THEN acc
    ELSE ParseDigits(Tail(str), 10 * acc + DigitValue(Head(str)))

ParseInt(str) ==
    IF str = <<>> \/ \E k \in DOMAIN str : ~IsDigit(str[k])
    THEN [val |-> 0, err |-> "invalid syntax"]
    ELSE [val |-> ParseDigits(str, 0), err |-> "nil"]

\* what a process does with the file: it has exited, it holds the file open,
\* it holds it open but its fd directory cannot be read, or neither
ProcStates == {"gone", "holder", "denied", "other"}

\* the PIDs from p upward whose state is among states, in ascending order
RECURSIVE PidsIn(_, _, _)
PidsIn(table, p, states) ==
    IF p > MaxPid THEN <<>>
    ELSE (IF table[p] \in states THEN <<p>> ELSE <<>>) \o PidsIn(table, p + 1, states)

Numerals(pids) == [k \in DOMAIN pids |-> Decimal(pids[k])]

\* the standard output of "lsof -t filePath": one PID to the line; a noisy
\* run also prints an empty line and a line that is not a number
LsofOutput(mode, table) ==
    LET lines == Numerals(PidsIn(table, 1, {"holder"})) IN
    IF mode = "noisy" THEN <<<<" ">>>> \o lines \o <<<<"l", "s", "o", "f">>>>
    ELSE lines

\* the scanner loop of findPIDsWithLsof over the lines from k on
RECURSIVE ParseLines(_, _)
ParseLines(lines, k) ==
    IF k > Len(lines) THEN <<>>
    ELSE LET line == TrimSpace(lines[k])
             pid == ParseInt(line)
         IN  IF line = <<>> \/ pid.err # "nil" THEN ParseLines(lines, k + 1)
             ELSE <<pid.val>> \o ParseLines(lines, k + 1)

\* Mapper.findPIDsWithLsof: cmd.Output fails when lsof cannot be run and when
\* it exits non-zero, as it does when it finds no process
findPIDsWithLsof(mode, table) ==
    IF mode = "missing" \/ (mode = "works" /\ PidsIn(table, 1, {"holder"}) = <<>>)
    THEN [pids |-> <<>>, err |-> "exec"]
    ELSE [pids |-> ParseLines(LsofOutput(mode, table), 1), err |-> "nil"]

Tier2NeededOnErrorOnly(t1) == t1.err # "nil"

\* FindProcessForFile falls back to /proc: err != nil || len(pids) == 0
Tier2Needed(t1) == t1.err # "nil" \/ Len(t1.pids) = 0

\* types.ProcessInfo: the PID; every other field is filled in best effort
ProcessInfo(pid) == [PID |-> pid]

AfterLookupAbort(processes, pid, ok) ==
    IF ok THEN Append(processes, ProcessInfo(pid)) ELSE <<>>

\* one iteration of the lookup loop: a failed GetProcessInfo is skipped
AfterLookup(processes, pid, ok) ==
    IF ok THEN Append(processes, ProcessInfo(pid)) ELSE processes

\* Mapper.GetProcessInfo succeeds: process.NewProcess finds the process
GetProcessInfoOK(table, pid) == pid \in DOMAIN table /\ table[pid] # "gone"

FindReturns(processes, err) ==
    [find EXCEPT !.pc = "returned", !.processes = processes, !.err = err]

InitMapper ==
    /\ fdHolders \in [1..MaxPid -> ProcStates]
    /\ tools \in [lsof : {"missing", "works", "noisy"}, procfs : BOOLEAN]
    /\ find = NoFind

\* m.FindProcessForFile(filePath) up to the outcome of tier 1
FindProcessForFile ==
    /\ find.pc = "idle"
    /\ LET t1 == findPIDsWithLsof(tools.lsof, fdHolders) IN
          find' = [find EXCEPT !.tier1 = t1,
                               !.pids = t1.pids,
                               !.pc = IF Tier2Needed(t1) THEN "tier2" ELSE "check"]
    /\ UNCHANGED <<fdHolders, tools>>
    /\ UNCHANGED <<diffVars, resolverVars, killerVars, scannerVars, severityVars, walkerVars>>

\* findPIDsFromProc: os.ReadDir("/proc") lists the live processes, and
\* entries that are no process directories
ReadProc ==
    /\ find.pc = "tier2"
    /\ find' =
          IF ~tools.procfs
          THEN [FindReturns(<<>>, "readdir /proc") EXCEPT !.tier2 = TRUE, !.pids = <<>>]
          ELSE [find EXCEPT !.pc = "scan", !.tier2 = TRUE, !.pids = <<>>,
                            !.entries =
                               Numerals(PidsIn(fdHolders, 1, ProcStates \ {"gone"}))
                                  \o <<<<"s", "e", "l", "f">>>>]
    /\ UNCHANGED <<fdHolders, tools>>
    /\ UNCHANGED <<diffVars, resolverVars, killerVars, scannerVars, severityVars, walkerVars>>

\* one iteration of the loop over the /proc entries: the fd directory of a
\* process that has exited or may not be inspected cannot be read
ScanEntry ==
    /\ find.pc = "scan"
    /\ find.entries # <<>>
    /\ LET pid == ParseInt(Head(find.entries))
           opened == /\ pid.err = "nil"
                     /\ pid.val \in DOMAIN fdHolders
                     /\ fdHolders[pid.val] = "holder"
       IN  find' = [find EXCEPT !.entries = Tail(@),
                                !.pids = IF opened THEN Append(@, pid.val) ELSE @]
    /\ UNCHANGED <<fdHolders, tools>>
    /\ UNCHANGED <<diffVars, resolverVars, killerVars, scannerVars, severityVars, walkerVars>>

\* findPIDsFromProc returns its PIDs
ScanDone ==
    /\ find.pc = "scan"
    /\ find.entries = <<>>
    /\ find' = [find EXCEPT !.pc = "check"]
    /\ UNCHANGED <<fdHolders, tools>>
    /\ UNCHANGED <<diffVars, resolverVars, killerVars, scannerVars, severityVars, walkerVars>>

\* if len(pids) == 0: the not-found error
CheckPids ==
    /\ find.pc = "check"
    /\ find' = IF Len(find.pids) = 0
               THEN FindReturns(<<>>, "no process found with file open")
               ELSE [find EXCEPT !.pc = "lookup"]
    /\ UNCHANGED <<fdHolders, tools>>
    /\ UNCHANGED <<diffVars, resolverVars, killerVars, scannerVars, severityVars, walkerVars>>

\* one iteration of the loop over pids: m.GetProcessInfo(pid)
Lookup ==
    /\ find.pc = "lookup"
    /\ Len(find.lookups) < Len(find.pids)
    /\ LET pid == find.pids[Len(find.lookups) + 1]
           ok == GetProcessInfoOK(fdHolders, pid)
       IN  find' = [find EXCEPT !.lookups = Append(@, [pid |-> pid, ok |-> ok]),
                                !.processes = AfterLookup(@, pid, ok)]
    /\ UNCHANGED <<fdHolders, tools>>
    /\ UNCHANGED <<diffVars, resolverVars, killerVars, scannerVars, severityVars, walkerVars>>

\* return processes, nil
FindReturn ==
    /\ find.pc = "lookup"
    /\ Len(find.lookups) = Len(find.pids)
    /\ find' = FindReturns(find.processes, "nil")
    /\ UNCHANGED <<fdHolders, tools>>
    /\ UNCHANGED <<diffVars, resolverVars, killerVars, scannerVars, severityVars, walkerVars>>

\* a process exits while the call is under way
ProcExits ==
    /\ find.pc \notin {"idle", "returned"}
    /\ \E p \in DOMAIN fdHolders :
          /\ fdHolders[p] # "gone"
          /\ fdHolders' = [fdHolders EXCEPT ![p] = "gone"]
    /\ UNCHANGED <<tools, find>>
    /\ UNCHANGED <<diffVars, resolverVars, killerVars, scannerVars, severityVars, walkerVars>>

InitFind ==
    /\ InitMapper
    /\ DiffIdle /\ ResolverIdle /\ KillerIdle /\ ScannerIdle
    /\ SeverityIdle /\ WalkerIdle

NextFind ==
    \/ FindProcessForFile
    \/ ReadProc
    \/ ScanEntry
    \/ ScanDone
    \/ CheckPids
    \/ Lookup
    \/ FindReturn
    \/ ProcExits

SpecFind == InitFind /\ [][NextFind]_vars

\* a FindProcessForFile call has returned
Found == find.pc = "returned"

\* C22: FindProcessForFile returns either a non-empty list of ProcessInfo or
\* an error: it never returns an empty list together with a nil error, also
\* when every PID a tier surfaced has exited before its ProcessInfo could be
\* fetched.
C22_NonEmptyOrNotFound ==
    (Found /\ find.err = "nil") => find.processes # <<>>

\* C23: FindProcessForFile runs tier 2, the scan of every live process's
\* descriptor table, iff tier 1 returned an error or an empty PID list; when
\* tier 1 yields at least one PID, tier 2 is not run and the result is built
\* from tier 1's PIDs alone.
C23_Tier2IffTier1Empty ==
    /\ find.tier2 => (find.tier1.err # "nil" \/ find.tier1.pids = <<>>)
    /\ Found =>
          /\ find.tier2 <=> (find.tier1.err # "nil" \/ find.tier1.pids = <<>>)
          /\ (find.tier1.err = "nil" /\ find.tier1.pids # <<>>) =>
                /\ find.pids = find.tier1.pids
                /\ find.entries = <<>>
                /\ [k \in DOMAIN find.lookups |-> find.lookups[k].pid] = find.tier1.pids

\* tier 1 ran without error and listed no PID, and the call returned after
\* tier 2 had scanned the live processes
C23_Witness ==
    /\ Found
    /\ find.tier1.err = "nil" /\ find.tier1.pids = <<>>
    /\ find.tier2
    /\ \E p \in DOMAIN fdHolders : fdHolders[p] # "gone"

\* the ProcessInfo of the PIDs in lookups from k on whose lookup succeeded
RECURSIVE Fetched(_, _)
Fetched(lookups, k) ==
    IF k > Len(lookups) THEN <<>>
    ELSE (IF lookups[k].ok THEN <<[PID |-> lookups[k].pid]>> ELSE <<>>)
            \o Fetched(lookups, k + 1)

\* C24: in FindProcessForFile a failed ProcessInfo lookup drops only that PID:
\* the returned list holds exactly the surfaced PIDs whose lookup succeeded,
\* in the order they were surfaced, and a failed lookup never makes the call
\* fail.
C24_FailedLookupDropsOne ==
    /\ find.pc \in {"lookup", "returned"} =>
          find.processes = Fetched(find.lookups, 1)
    /\ (Found /\ find.pids # <<>>) =>
          /\ find.err = "nil"
          /\ [k \in DOMAIN find.lookups |-> find.lookups[k].pid] = find.pids

\* a process surfaced first had exited before its lookup, one surfaced after
\* it had not, and the call returned the second alone
C24_Witness ==
    /\ Found
    /\ Len(find.lookups) >= 2
    /\ ~find.lookups[1].ok
    /\ find.lookups[2].ok
    /\ find.processes = <<[PID |-> find.lookups[2].pid]>>

\* ---------------------------------------------------------------- severity
\* A rate is the float64 <<numerator, denominator>> with denominator >= 0:
\* <<n, 0>> with n > 0 is +Inf and <<0, 0>> is NaN, as a growth divided by an
\* interval of zero seconds gives them.
IsNaN(x) == x[1] = 0 /\ x[2] = 0

\* a >= b on float64: false when either is NaN
FloatGE(a, b) == ~IsNaN(a) /\ ~IsNaN(b) /\ a[1] * b[2] >= b[1] * a[2]

\* mbPerSec := bytesPerSec / (1024 * 1024); dividing by a power of two is exact
MbPerSec(rate) == <<rate[1], rate[2] * (1024 * 1024)>>

\* types.GetSeverity
GetSeverity(rate) ==
    IF FloatGE(MbPerSec(rate), <<10, 1>>) THEN "SeverityHigh"
    ELSE IF FloatGE(MbPerSec(rate), <<1, 1>>) THEN "SeverityMedium"
    ELSE "SeverityLow"

\* output.GetSeverityColor
GetSeverityColor(rate) ==
    IF FloatGE(MbPerSec(rate), <<10, 1>>) THEN "ColorRed"
    ELSE IF FloatGE(MbPerSec(rate), <<1, 1>>) THEN "ColorYellow"
    ELSE "ColorGreen"

GetSeverityEmojiStrict(rate) ==
    IF ~IsNaN(rate) /\ FloatGT(MbPerSec(rate), <<10, 1>>) THEN "EmojiRed"
    ELSE IF FloatGE(MbPerSec(rate), <<1, 1>>) THEN "EmojiYellow"
    ELSE "EmojiGreen"

\* output.GetSeverityEmoji
GetSeverityEmoji(rate) ==
    IF FloatGE(MbPerSec(rate), <<10, 1>>) THEN "EmojiRed"
    ELSE IF FloatGE(MbPerSec(rate), <<1, 1>>) THEN "EmojiYellow"
    ELSE "EmojiGreen"

\* the rates handed in: those within RateWindow of 1 MB/s and of 10 MB/s in
\* steps of one byte and of half a byte per second, no growth, shrinkage, and
\* the two rates an interval of zero seconds produces
Rates ==
    { <<m * 1048576 * d + k, d>> :
         m \in {1, 10}, d \in {1, 2}, k \in (-RateWindow)..RateWindow }
       \cup {<<0, 1>>, <<-1, 1>>, <<1, 0>>, <<0, 0>>}

InitSeverity ==
    /\ bytesPerSec \in Rates
    /\ classified = NotClassified

SeverityCall(fn, class) ==
    /\ classified' = [fn |-> fn, class |-> class]
    /\ UNCHANGED bytesPerSec
    /\ UNCHANGED <<diffVars, resolverVars, killerVars, scannerVars, mapperVars, walkerVars>>

CallGetSeverity == SeverityCall("GetSeverity", GetSeverity(bytesPerSec))

CallGetSeverityColor == SeverityCall("GetSeverityColor", GetSeverityColor(bytesPerSec))

CallGetSeverityEmoji == SeverityCall("GetSeverityEmoji", GetSeverityEmoji(bytesPerSec))

InitClassify ==
    /\ InitSeverity
    /\ DiffIdle /\ ResolverIdle /\ KillerIdle /\ ScannerIdle
    /\ MapperIdle /\ WalkerIdle

NextClassify == CallGetSeverity \/ CallGetSeverityColor \/ CallGetSeverityEmoji

SpecClassify == InitClassify /\ [][NextClassify]_vars

\* the severity class each function's return value stands for
ClassOf ==
    [SeverityLow |-> "low", ColorGreen |-> "low", EmojiGreen |-> "low",
     SeverityMedium |-> "medium", ColorYellow |-> "medium", EmojiYellow |-> "medium",
     SeverityHigh |-> "high", ColorRed |-> "high", EmojiRed |-> "high"]

\* C25: severity is a function of the growth rate alone, with 1 MB =
\* 1,048,576 bytes: a rate below 1 MB/s is low, from 1 MB/s up to but not
\* including 10 MB/s medium, 10 MB/s and above high; GetSeverity,
\* GetSeverityColor and GetSeverityEmoji give every rate the same class
\* (low/green, medium/yellow, high/red).
C25_SeverityClasses ==
    classified.fn # "none" =>
        LET n == bytesPerSec[1]
            d == bytesPerSec[2]
            class == ClassOf[classified.class]
        IN  /\ class = ClassOf[GetSeverity(bytesPerSec)]
            /\ class = ClassOf[GetSeverityColor(bytesPerSec)]
            /\ class = ClassOf[GetSeverityEmoji(bytesPerSec)]
            /\ classified.class \in
                  CASE classified.fn = "GetSeverity" ->
                          {"SeverityLow", "SeverityMedium", "SeverityHigh"}
                    [] classified.fn = "GetSeverityColor" ->
                          {"ColorGreen", "ColorYellow", "ColorRed"}
                    [] OTHER -> {"EmojiGreen", "EmojiYellow", "EmojiRed"}
            /\ (d > 0 /\ n < 1048576 * d) => class = "low"
            /\ (d > 0 /\ n >= 1048576 * d /\ n < 10485760 * d) => class = "medium"
            /\ (d > 0 /\ n >= 10485760 * d) => class = "high"
            /\ (d = 0 /\ n > 0) => class = "high"

\* GetSeverityEmoji was handed exactly 10 MB/s
C25_Witness ==
    /\ classified.fn = "GetSeverityEmoji"
    /\ bytesPerSec = <<10485760, 1>>
    /\ classified.class = "EmojiRed"

\* ------------------------------------------------------------ scanner.Walker
\* Walker.isExcluded on d.Name()
WalkerExcluded(cfg, n) == isExcluded(cfg, Tree[n].name)

\* the callback of filepath.WalkDir on a non-directory that it does not
\* append: a symlink unless FollowSymlinks, or an excluded name
WalkerSkips(cfg, n) ==
    \/ Tree[n].kind = "symlink" /\ ~cfg.FollowSymlinks
    \/ WalkerExcluded(cfg, n)

\* the configurations of a Walker: the exclude patterns matter, the depth
\* limit and the worker count are not read by Walk
WalkConfigs ==
    { c \in Configs : c.Paths = <<1>> /\ c.WorkerCount = 1 /\ c.MaxDepth = 0 }

InitWalker ==
    /\ config \in WalkConfigs
    /\ ScannerNotStarted
    /\ walker = WalkerOff

\* w.Walk(ctx, paths) is called
Walk ==
    /\ walker.pc = "off"
    /\ \E paths \in RootLists :
          walker' = [walker EXCEPT !.pc = "run", !.paths = paths, !.roots = paths]
    /\ UNCHANGED <<scannerVars, diffVars, resolverVars, killerVars, mapperVars, severityVars>>

\* the loop over paths calls filepath.WalkDir(basePath, ...)
WalkDir ==
    /\ walker.pc = "run"
    /\ walker.todo = <<>>
    /\ walker.roots # <<>>
    /\ walker' = [walker EXCEPT !.todo = <<Head(walker.roots)>>, !.roots = Tail(@)]
    /\ UNCHANGED <<scannerVars, diffVars, resolverVars, killerVars, mapperVars, severityVars>>

\* the callback finds the context cancelled and returns ctx.Err(): WalkDir
\* stops and returns it, and the loop over paths goes on since the error is
\* context.Canceled
VisitCancelled ==
    /\ walker.pc = "run"
    /\ walker.todo # <<>>
    /\ cancelled
    /\ walker' = [walker EXCEPT !.todo = <<>>]
    /\ UNCHANGED <<scannerVars, diffVars, resolverVars, killerVars, mapperVars, severityVars>>

\* the callback on a directory returns nil, whatever its name; WalkDir then
\* reads it and goes through its entries, or reports the read error to the
\* callback, which returns nil again
VisitDir ==
    /\ walker.pc = "run"
    /\ walker.todo # <<>>
    /\ ~cancelled
    /\ Tree[Head(walker.todo)].kind = "dir"
    /\ \E readOK \in BOOLEAN :
          walker' = [walker EXCEPT !.todo =
                        IF readOK THEN Tree[Head(walker.todo)].children \o Tail(@)
                        ELSE Tail(@)]
    /\ UNCHANGED <<scannerVars, diffVars, resolverVars, killerVars, mapperVars, severityVars>>

\* the callback on a non-directory: skipped, or d.Info() fails, or its
\* FileInfo is appended to files
VisitFile ==
    /\ walker.pc = "run"
    /\ walker.todo # <<>>
    /\ ~cancelled
    /\ Tree[Head(walker.todo)].kind # "dir"
    /\ LET n == Head(walker.todo) IN
       \E infoOK \in BOOLEAN :
          walker' = [walker EXCEPT
                        !.todo = Tail(@),
                        !.files = IF ~WalkerSkips(config, n) /\ infoOK
                                  THEN Append(@, FileInfo(n, Tree[n].size, FALSE))
                                  ELSE @]
    /\ UNCHANGED <<scannerVars, diffVars, resolverVars, killerVars, mapperVars, severityVars>>

\* return files, nil
WalkReturn ==
    /\ walker.pc = "run"
    /\ walker.todo = <<>>
    /\ walker.roots = <<>>
    /\ walker' = [walker EXCEPT !.pc = "returned", !.err = "nil"]
    /\ UNCHANGED <<scannerVars, diffVars, resolverVars, killerVars, mapperVars, severityVars>>

\* the caller cancels the context of a running Walk
WalkCancel ==
    /\ walker.pc = "run"
    /\ Cancel

InitWalk ==
    /\ InitWalker
    /\ DiffIdle /\ ResolverIdle /\ KillerIdle
    /\ MapperIdle /\ SeverityIdle

NextWalk ==
    \/ Walk \/ WalkDir \/ VisitCancelled \/ VisitDir \/ VisitFile \/ WalkReturn
    \/ WalkCancel

SpecWalk == InitWalk /\ [][NextWalk]_vars

\* node n, or a directory between n and the root it was reached from, has a
\* base name that matches an exclude pattern; a root is walked as configured
RECURSIVE ExcludedOnWay(_, _)
ExcludedOnWay(roots, n) ==
    IF Tree[n].parent = 0 \/ \E k \in DOMAIN roots : roots[k] = n THEN FALSE
    ELSE isExcluded(config, Tree[n].name) \/ ExcludedOnWay(roots, Tree[n].parent)

\* what C28 says of Scanner.walkDirectory
PrunedInSnapshot ==
    \A n \in hist.enqueued \cup DOMAIN snapshot.Files : ~ExcludedOnWay(config.Paths, n)

\* what C28 says of Walker.Walk
PrunedInWalk ==
    \A k \in DOMAIN walker.files : ~ExcludedOnWay(walker.paths, walker.files[k].Path)

\* C28: an entry whose base name matches an exclude pattern is pruned from the
\* walk, and for a directory the whole subtree is pruned: no file beneath a
\* directory whose base name matches an exclude pattern appears in the result,
\* even when the file's own name matches no pattern; in Scanner.walkDirectory
\* and in Walker.Walk alike.
C28_ExcludedSubtreePruned == PrunedInSnapshot /\ PrunedInWalk

\* the sum of the sizes of the entries of files under the keys in keys
RECURSIVE SumSizes(_, _)
SumSizes(files, keys) ==
    IF keys = {} THEN 0
    ELSE LET p == CHOOSE q \in keys : TRUE
         IN  files[p].Size + SumSizes(files, keys \ {p})

\* the keys of files whose entry is no directory
NonDirKeys(files) == { p \in DOMAIN files : ~files[p].IsDir }

\* C31: the counters of a Snapshot agree with its file map after every
\* TakeSnapshot: FileCount is the number of non-directory entries of Files
\* and TotalSize the sum of their sizes, for every configuration of roots,
\* duplicated roots included, and every worker interleaving.
C31_CountersMatchMap ==
    SnapshotReturned =>
        /\ snapshot.FileCount = Cardinality(NonDirKeys(snapshot.Files))
        /\ snapshot.TotalSize = SumSizes(snapshot.Files, NonDirKeys(snapshot.Files))

\* the context was cancelled before Scan's second snapshot had completed:
\* before or during the first, during the wait, or during the second
CancelledBeforeSecondDone ==
    cancelled /\ (scan.snapshots < 2 \/ hist.cancelAt # "outside")

\* C32: Scan never returns a successful result built from a snapshot cut short
\* by cancellation: if the context is cancelled at any time before the second
\* snapshot has completed, for every interval including zero, Scan returns
\* the cancellation error and no result record.
C32_NoResultAfterCancel ==
    (scan.pc = "returned" /\ CancelledBeforeSecondDone) =>
        /\ scan.err = "context canceled"
        /\ scan.result = NoScanResult

\* ------------------------------------------------ action.Killer: timed runs
\* Kill is waiting: blocked in its select with no case ready, or asleep in
\* the grace period
KillWaiting ==
    \/ /\ killer.pc = "blocked"
       /\ killer.woken = "none"
       /\ ~TimerDue(killer.timerAt, now)
    \/ /\ killer.pc = "grace"
       /\ ~TimerDue(killer.graceAt, now)

\* 100 ms pass while Kill is waiting or after it has returned: the
\* statements of Kill themselves take no time
TickWaiting ==
    /\ KillWaiting \/ killer.pc = "returned"
    /\ Tick

\* the poll goroutine's sleep is over after Kill has returned and the clock
\* has reached the end of its range; time is not counted beyond it
PollWakeLate ==
    /\ poller.pc = "sleep"
    /\ killer.pc = "returned"
    /\ now = MaxClock
    /\ poller' = [poller EXCEPT !.pc = "probe"]
    /\ UNCHANGED <<target, killer, done, timerC, now, sigLog, sendCall>>
    /\ UNCHANGED <<diffVars, resolverVars, scannerVars, restVars>>

\* the steps of the goroutine running Kill
KillSteps ==
    \/ SendTerm \/ Spawn \/ ArmTimer \/ EnterSelect \/ SelectDone
    \/ SelectTimeout \/ SendForce \/ FinalCheck

\* the steps of the liveness-poll goroutine
PollSteps == PollProbe \/ PollWake \/ PollWakeLate

NextKillTimed ==
    \/ Kill \/ KillSteps \/ TimerFires \/ PollSteps \/ ProcessExits \/ TickWaiting

\* every goroutine that can run does run, expired timers are delivered and
\* time passes; the target process is under no obligation to exit
KillFairness ==
    /\ WF_vars(KillSteps)
    /\ WF_vars(PollSteps)
    /\ WF_vars(TimerFires)
    /\ WF_vars(TickWaiting)

SpecKillTimed == InitKill /\ [][NextKillTimed]_vars /\ KillFairness

\* the liveness-poll goroutine is not running
PollerTerminated == poller.pc \in {"off", "exited"}

\* C33: Kill leaks no task: once Kill has returned, with success or with the
\* fatal error, the liveness-poll goroutine it started has terminated or
\* terminates after a bounded number of further polls, even when the process
\* never exits.
C33_NoLeakedPoller == KillReturned ~> PollerTerminated

\* a signal delivery of Kill reported the process done
SignalSawGone == \E i \in DOMAIN sigLog : sigLog[i].by = "Kill" /\ sigLog[i].outcome = "done"

\* Kill went through the grace period to its final liveness probe: the
\* force-kill signal was delivered to a live process
FinalProbeMade == \E i \in KillSent("SIGKILL") : sigLog[i].outcome = "ok"

\* C34: Kill returns success only on evidence that the process is gone: when
\* Kill has returned nil, a signal delivery of the call reported the process
\* done or a liveness probe (the poll goroutine's or the final one) reported
\* it absent, and the process is indeed gone; Kill never returns nil for a
\* process that every probe and signal of the call saw alive.
C34_NilOnlyOnEvidence ==
    (KillReturned /\ killer.result = "nil") =>
        /\ ~target.alive
        /\ SignalSawGone \/ poller.absent # "no" \/ FinalProbeMade

\* Kill returned nil on its final probe alone: SIGTERM and SIGKILL were both
\* delivered to a live process and the poll goroutine never reported absence
\* in time for the select
C34_Witness ==
    /\ KillReturned
    /\ killer.result = "nil"
    /\ FinalProbeMade
    /\ ~SignalSawGone

\* C35: Kill always returns: whatever the target process does, every call
\* of Kill reaches a return, and it does so no later than the configured
\* timeout plus the one grace period after the force-kill signal (the call
\* begins at time 0 and the statements of Kill take no time).
C35_KillAlwaysReturns ==
    /\ (killer.pc # "idle") ~> KillReturned
    /\ [][(~KillReturned /\ KillReturned') => now' <= killer.timeout + KillGrace]_vars

\* Kill returned at the latest moment, after the whole timeout and the whole
\* grace period, from a process that survived the force-kill signal
C35_Witness ==
    /\ KillReturned
    /\ killer.result = "still running after SIGKILL"
    /\ killer.timeout = MaxTimeout
    /\ killer.graceAt = killer.timeout + KillGrace
    /\ target.alive

====
